---- MODULE Spec2Model ----
(***************************************************************************)
(* Model of the Fox alert-enrichment pipeline (wayfinder-fox):             *)
(*   FoxEnrichAction (validate / execute / _process_alert),                *)
(*   ProjectContextEnricher.enrich, ProjectContextReader.lookup,           *)
(*   CriticalityRouter.route and FoxTracer span emission.                  *)
(*                                                                         *)
(* Python strings whose spelling matters (labels, criticalities, keys of   *)
(* the routing table) are sequences of one-character strings, so that      *)
(* str.lower() is computed character by character.  Other strings (span    *)
(* names, action names, messages) are TLA+ strings.                        *)
(***************************************************************************)
EXTENDS Integers, Sequences, FiniteSets, TLC

(***************************************************************************)
(* Strings                                                                 *)
(***************************************************************************)
s_empty == <<>>
s_critical == <<"c","r","i","t","i","c","a","l">>
s_Critical == <<"C","r","i","t","i","c","a","l">>
s_CRITICAL == <<"C","R","I","T","I","C","A","L">>
s_high == <<"h","i","g","h">>
s_High == <<"H","i","g","h">>
s_medium == <<"m","e","d","i","u","m">>
s_low == <<"l","o","w">>
s_warning == <<"w","a","r","n","i","n","g">>
s_unknown == <<"u","n","k","n","o","w","n">>
s_p1 == <<"p","1">>
s_p2 == <<"p","2">>
s_ns1 == <<"n","s","1">>
s_A1 == <<"A","1">>
s_X == <<"X">>
s_Y == <<"Y">>
s_alertmanager == <<"a","m">>
s_grafana == <<"g","r">>
s_firing == <<"f","i","r","i","n","g">>

\* str.lower() on ASCII letters
UpperToLower ==
  [A |-> "a", B |-> "b", C |-> "c", D |-> "d", E |-> "e", F |-> "f", G |-> "g",
   H |-> "h", I |-> "i", J |-> "j", K |-> "k", L |-> "l", M |-> "m", N |-> "n",
   O |-> "o", P |-> "p", Q |-> "q", R |-> "r", S |-> "s", T |-> "t", U |-> "u",
   V |-> "v", W |-> "w", X |-> "x", Y |-> "y", Z |-> "z"]

LowerChar(ch) == IF ch \in DOMAIN UpperToLower THEN UpperToLower[ch] ELSE ch

Lower(s) == [i \in 1..Len(s) |-> LowerChar(s[i])]

\* dict.get(k, default)
Get(d, k, default) == IF k \in DOMAIN d THEN d[k] ELSE default

(***************************************************************************)
(* FoxConfig.routing_table                                                 *)
(***************************************************************************)
DefaultRoutingTable ==
  (s_critical :> <<"claude_analysis", "context_notify">>) @@
  (s_high :> <<"context_notify">>) @@
  (s_medium :> <<"log">>) @@
  (s_low :> <<"log">>)

\* route with an empty default list
route_DefaultEmpty(table, enriched) == Get(table, Lower(enriched.criticality), <<>>)

\* route without lower-casing the criticality
route_NoLower(table, enriched) == Get(table, enriched.criticality, <<"log">>)

\* CriticalityRouter.route: lower-case the criticality, exact lookup, default ["log"]
route(table, enriched) == Get(table, Lower(enriched.criticality), <<"log">>)

\* route returning the table's own list object
RouteShares_NoCopy(table, enriched) ==
  {Lower(enriched.criticality)} \cap DOMAIN table

\* The keys of the table whose list object the list route returns is:
\* none, list(...) builds a new list on every call and the default ["log"]
\* is a new list too.
RouteShares(table, enriched) == {}

(***************************************************************************)
(* Python values: None, str, int, list, dict, Optional[ProjectContext]     *)
(***************************************************************************)
PyNone == [t |-> "none"]
PyStr(s) == [t |-> "str", v |-> s]
PyInt(n) == [t |-> "int", v |-> n]
PyList(l) == [t |-> "list", v |-> l]
PyDict(d) == [t |-> "dict", v |-> d]
PyCtx(c) == [t |-> "ctx", v |-> c]

\* the empty dict {}
EmptyDict == [k \in {} |-> PyNone]

\* bool(x)
Truthy(x) ==
  CASE x.t = "none" -> FALSE
    [] x.t = "str" -> x.v # <<>>
    [] x.t = "int" -> x.v # 0
    [] x.t = "list" -> Len(x.v) > 0
    [] x.t = "dict" -> DOMAIN x.v # {}
    [] x.t = "ctx" -> TRUE

\* a or b
Or(a, b) == IF Truthy(a) THEN a ELSE b

\* labels.get(k): the label as a Python value, None when the key is missing
LabelGet(labels, k) == IF k \in DOMAIN labels THEN PyStr(labels[k]) ELSE PyNone

(***************************************************************************)
(* ProjectContextReader (kubernetes.py)                                    *)
(***************************************************************************)
\* _MAX_CACHE_SIZE is 1024 in the source; the model's cache holds fewer
\* entries, so that a full cache is reached after a few lookups.
MAX_CACHE_SIZE == 2
CacheTTL == 300

\* dataclass ProjectContext
ProjectContext(pid, crit, owner, channels, slo, p99) ==
  [project_id |-> pid, criticality |-> crit, owner |-> owner,
   alert_channels |-> channels, availability_slo |-> slo, latency_p99 |-> p99]

\* an exception leaving a method
PyRaise(e) == [t |-> "raise", v |-> e]

\* _lookup_kubernetes without the except clause around the API call
lookup_kubernetes_Propagates(env, namespace, project_id) ==
  IF env.k8s = "no_library" THEN PyNone
  ELSE IF env.k8s = "no_credentials" THEN PyNone
  ELSE IF ~Truthy(namespace) THEN PyNone
  ELSE IF env.k8s = "api_error" THEN PyRaise("ApiException")
  ELSE LET items == Get(env.k8s_items, namespace.v, <<>>)
           ok == {i \in 1..Len(items) :
                    ~(Truthy(project_id) /\ items[i].project_id # project_id.v)}
       IN IF ok = {} THEN PyNone
          ELSE PyCtx(items[CHOOSE i \in ok : \A j \in ok : i <= j])

\* _lookup_kubernetes without the project_id filter
lookup_kubernetes_NoFilter(env, namespace, project_id) ==
  IF env.k8s # "ok" \/ ~Truthy(namespace) THEN PyNone
  ELSE LET items == Get(env.k8s_items, namespace.v, <<>>)
       IN IF items = <<>> THEN PyNone ELSE PyCtx(items[1])

\* ProjectContextReader._lookup_kubernetes: first custom resource of the
\* namespace, filtered to project_id when one is supplied.  env.k8s says what
\* the cluster side does: "no_library" (the import raises ImportError),
\* "no_credentials" (both config loaders raise), "api_error" (the list call
\* raises), "ok".  Each except clause ends in return None.
lookup_kubernetes(env, namespace, project_id) ==
  IF env.k8s = "no_library" THEN PyNone
  ELSE IF env.k8s = "no_credentials" THEN PyNone
  ELSE IF ~Truthy(namespace) THEN PyNone
  ELSE IF env.k8s = "api_error" THEN PyNone
  ELSE LET items == Get(env.k8s_items, namespace.v, <<>>)
           ok == {i \in 1..Len(items) :
                    ~(Truthy(project_id) /\ items[i].project_id # project_id.v)}
       IN IF ok = {} THEN PyNone
          ELSE PyCtx(items[CHOOSE i \in ok : \A j \in ok : i <= j])

\* ProjectContextReader._from_yaml.  env.yaml.state says what the file is:
\* "missing" (exists() is false), "empty" (safe_load returns None),
\* "malformed" (safe_load raises), "not_mapping" (data.get raises), "doc".
\* None for each of the first four and for a project id mismatch;
\* alert_channels is always [].
from_yaml(env, project_id) ==
  IF env.yaml.state = "missing" THEN PyNone
  ELSE IF env.yaml.state = "malformed" THEN PyNone
  ELSE IF env.yaml.state = "empty" THEN PyNone
  ELSE IF env.yaml.state = "not_mapping" THEN PyNone
  ELSE LET d == env.yaml.doc IN
       IF Truthy(project_id) /\ d.project_id # project_id.v THEN PyNone
       ELSE PyCtx(ProjectContext(d.project_id, d.criticality, d.owner, <<>>,
                                 d.availability_slo, d.latency_p99))

\* the cache is a dict in insertion order: a sequence of entries
CacheKeys(c) == {c[i].key : i \in 1..Len(c)}
CacheEntry(c, k) == c[CHOOSE i \in 1..Len(c) : c[i].key = k]
\* a pop that removes nothing
CachePop_Keeps(c, k) == c
\* self._cache.pop(k, None) and, for a key that is present, del self._cache[k]
CachePop(c, k) == SelectSeq(c, LAMBDA e : e.key # k)

\* ProjectContextReader._evict_expired
evict_expired(c, now) == SelectSeq(c, LAMBDA e : ~(now >= e.expires_at))

\* the key stored last instead of the key expiring first
OldestKey_Newest(c) == c[Len(c)].key

\* min(self._cache, key=expires_at): first minimal entry in dict order
OldestKey(c) ==
  c[CHOOSE i \in 1..Len(c) :
      /\ \A j \in 1..Len(c) : c[i].expires_at <= c[j].expires_at
      /\ \A j \in 1..(i-1) : c[j].expires_at > c[i].expires_at].key

\* lookup with the expiry test now <= expires_at
lookup_HitAtExpiry(c, now, env, namespace, project_id) ==
  LET cache_key == Or(Or(project_id, namespace), PyStr(s_empty)).v
      hit == cache_key \in CacheKeys(c) /\ now <= CacheEntry(c, cache_key).expires_at
      popped == CachePop(c, cache_key)
      k8s == IF env.use_kubernetes
             THEN lookup_kubernetes(env, namespace, project_id) ELSE PyNone
      ctx == IF k8s.t = "none" /\ env.yaml_path
             THEN from_yaml(env, project_id) ELSE k8s
      c1 == IF Len(popped) >= MAX_CACHE_SIZE THEN evict_expired(popped, now) ELSE popped
      c2 == IF Len(c1) >= MAX_CACHE_SIZE THEN CachePop(c1, OldestKey(c1)) ELSE c1
      stored == Append(c2, [key |-> cache_key, context |-> ctx.v,
                            expires_at |-> now + CacheTTL])
      asked == (IF env.use_kubernetes THEN <<"kubernetes">> ELSE <<>>) \o
               (IF k8s.t = "none" /\ env.yaml_path THEN <<"yaml">> ELSE <<>>)
  IN IF hit THEN [ret |-> PyCtx(CacheEntry(c, cache_key).context), cache |-> c,
                  asked |-> <<>>]
     ELSE IF ctx.t = "raise" THEN [ret |-> ctx, cache |-> popped, asked |-> asked]
     ELSE IF ctx.t = "ctx" THEN [ret |-> ctx, cache |-> stored, asked |-> asked]
     ELSE [ret |-> PyNone, cache |-> popped, asked |-> asked]

\* lookup making room in the cache before it knows whether a context was found
lookup_EvictsOnAbsent(c, now, env, namespace, project_id) ==
  LET cache_key == Or(Or(project_id, namespace), PyStr(s_empty)).v
      hit == cache_key \in CacheKeys(c) /\ now < CacheEntry(c, cache_key).expires_at
      popped == CachePop(c, cache_key)
      k8s == IF env.use_kubernetes
             THEN lookup_kubernetes(env, namespace, project_id) ELSE PyNone
      ctx == IF k8s.t = "none" /\ env.yaml_path
             THEN from_yaml(env, project_id) ELSE k8s
      c1 == IF Len(popped) >= MAX_CACHE_SIZE THEN evict_expired(popped, now) ELSE popped
      c2 == IF Len(c1) >= MAX_CACHE_SIZE THEN CachePop(c1, OldestKey(c1)) ELSE c1
      stored == Append(c2, [key |-> cache_key, context |-> ctx.v,
                            expires_at |-> now + CacheTTL])
      asked == (IF env.use_kubernetes THEN <<"kubernetes">> ELSE <<>>) \o
               (IF k8s.t = "none" /\ env.yaml_path THEN <<"yaml">> ELSE <<>>)
  IN IF hit THEN [ret |-> PyCtx(CacheEntry(c, cache_key).context), cache |-> c,
                  asked |-> <<>>]
     ELSE IF ctx.t = "raise" THEN [ret |-> ctx, cache |-> popped, asked |-> asked]
     ELSE IF ctx.t = "ctx" THEN [ret |-> ctx, cache |-> stored, asked |-> asked]
     ELSE [ret |-> PyNone, cache |-> c2, asked |-> asked]

\* ProjectContextReader.lookup: the returned context (or the exception that
\* leaves lookup), the cache afterwards, and the authorities asked, in order
lookup(c, now, env, namespace, project_id) ==
  LET cache_key == Or(Or(project_id, namespace), PyStr(s_empty)).v
      hit == cache_key \in CacheKeys(c) /\ now < CacheEntry(c, cache_key).expires_at
      popped == CachePop(c, cache_key)
      k8s == IF env.use_kubernetes
             THEN lookup_kubernetes(env, namespace, project_id) ELSE PyNone
      ctx == IF k8s.t = "none" /\ env.yaml_path
             THEN from_yaml(env, project_id) ELSE k8s
      c1 == IF Len(popped) >= MAX_CACHE_SIZE THEN evict_expired(popped, now) ELSE popped
      c2 == IF Len(c1) >= MAX_CACHE_SIZE THEN CachePop(c1, OldestKey(c1)) ELSE c1
      stored == Append(c2, [key |-> cache_key, context |-> ctx.v,
                            expires_at |-> now + CacheTTL])
      asked == (IF env.use_kubernetes THEN <<"kubernetes">> ELSE <<>>) \o
               (IF k8s.t = "none" /\ env.yaml_path THEN <<"yaml">> ELSE <<>>)
  IN IF hit THEN [ret |-> PyCtx(CacheEntry(c, cache_key).context), cache |-> c,
                  asked |-> <<>>]
     ELSE IF ctx.t = "raise" THEN [ret |-> ctx, cache |-> popped, asked |-> asked]
     ELSE IF ctx.t = "ctx" THEN [ret |-> ctx, cache |-> stored, asked |-> asked]
     ELSE [ret |-> PyNone, cache |-> popped, asked |-> asked]

(***************************************************************************)
(* ProjectContextEnricher (enricher.py)                                    *)
(***************************************************************************)
\* dataclass Alert
Alert(name, labels, source) == [name |-> name, labels |-> labels, source |-> source]

\* the project_id candidate: labels.get("project_id", labels.get("project", ""))
CandidateProjectId(labels) == Get(labels, "project_id", Get(labels, "project", s_empty))

\* the arguments enrich passes to the reader
LookupNamespace(alert) == LabelGet(alert.labels, "namespace")
LookupProjectId(alert) ==
  LET p == PyStr(CandidateProjectId(alert.labels)) IN Or(p, PyNone)

\* enrich letting the alert's severity label override the context
enrich_SeverityOverrides(alert, ctx) ==
  IF ctx.t = "ctx"
  THEN [alert |-> alert,
        project_id |-> ctx.v.project_id,
        criticality |-> Get(alert.labels, "severity", ctx.v.criticality),
        business_owner |-> ctx.v.owner,
        alert_channels |-> ctx.v.alert_channels,
        availability_slo |-> ctx.v.availability_slo,
        latency_p99 |-> ctx.v.latency_p99,
        enriched |-> TRUE]
  ELSE [alert |-> alert,
        project_id |-> CandidateProjectId(alert.labels),
        criticality |-> Get(alert.labels, "severity", s_medium),
        business_owner |-> "",
        alert_channels |-> <<>>,
        availability_slo |-> "",
        latency_p99 |-> "",
        enriched |-> FALSE]

\* enrich taking the project label whenever the project_id label is empty
enrich_ProjectOr(alert, ctx) ==
  IF ctx.t = "ctx"
  THEN [alert |-> alert,
        project_id |-> ctx.v.project_id,
        criticality |-> ctx.v.criticality,
        business_owner |-> ctx.v.owner,
        alert_channels |-> ctx.v.alert_channels,
        availability_slo |-> ctx.v.availability_slo,
        latency_p99 |-> ctx.v.latency_p99,
        enriched |-> TRUE]
  ELSE [alert |-> alert,
        project_id |-> Or(LabelGet(alert.labels, "project_id"),
                          PyStr(Get(alert.labels, "project", s_empty))).v,
        criticality |-> Get(alert.labels, "severity", s_medium),
        business_owner |-> "",
        alert_channels |-> <<>>,
        availability_slo |-> "",
        latency_p99 |-> "",
        enriched |-> FALSE]

\* ProjectContextEnricher.enrich: the EnrichedAlert built from the alert and
\* the reader's answer ctx
enrich(alert, ctx) ==
  IF ctx.t = "ctx"
  THEN [alert |-> alert,
        project_id |-> ctx.v.project_id,
        criticality |-> ctx.v.criticality,
        business_owner |-> ctx.v.owner,
        alert_channels |-> ctx.v.alert_channels,
        availability_slo |-> ctx.v.availability_slo,
        latency_p99 |-> ctx.v.latency_p99,
        enriched |-> TRUE]
  ELSE [alert |-> alert,
        project_id |-> CandidateProjectId(alert.labels),
        criticality |-> Get(alert.labels, "severity", s_medium),
        business_owner |-> "",
        alert_channels |-> <<>>,
        availability_slo |-> "",
        latency_p99 |-> "",
        enriched |-> FALSE]

(***************************************************************************)
(* FoxTracer (telemetry.py) and the OpenTelemetry context                  *)
(***************************************************************************)
\* tracer.start_span(name, attributes): the parent is the span that is
\* current in the context (0: none); a root span opens a new trace.
\* The field alert is the position of the alert being processed.
\* The fields start_time and end_time order the start and end events of all
\* spans: the k-th event has time k (end_time 0: not ended).
SpanEvents(sp) == Len(sp) + Cardinality({k \in 1..Len(sp) : sp[k].ended})

StartSpan(sp, act, name, attrs, i) ==
  LET id == Len(sp) + 1
      parent == IF act = <<>> THEN 0 ELSE act[Len(act)]
  IN [name |-> name, id |-> id, parent |-> parent,
      trace_id |-> IF parent = 0 THEN id ELSE sp[parent].trace_id,
      ended |-> FALSE, attrs |-> attrs, alert |-> i,
      start_time |-> SpanEvents(sp) + 1, end_time |-> 0]

\* span.end(); ending a span that has ended changes nothing
EndSpan(sp, id) ==
  IF sp[id].ended THEN sp
  ELSE [sp EXCEPT ![id].ended = TRUE, ![id].end_time = SpanEvents(sp) + 1]

\* entering a with-block that ends the span at once
use_span_EndsAtOnce(sp, act, id) ==
  [spans |-> EndSpan(sp, id), active |-> Append(act, id)]

\* entering `with trace.use_span(span, end_on_exit=True)`: the span becomes
\* the current span and stays open
use_span(sp, act, id) == [spans |-> sp, active |-> Append(act, id)]

\* leaving a with-block without ending its span
exit_use_span_LeavesOpen(sp, act) ==
  [spans |-> sp, active |-> SubSeq(act, 1, Len(act) - 1)]

\* leaving `with trace.use_span(span, end_on_exit=True)`, by return or by an
\* exception: the span is ended and the previous current span is restored
exit_use_span(sp, act) ==
  [spans |-> EndSpan(sp, act[Len(act)]),
   active |-> SubSeq(act, 1, Len(act) - 1)]

\* FoxTracer.alert_received / context_enrich / action
alert_received(sp, act, alert_name, criticality, source, i) ==
  StartSpan(sp, act, <<"fox.alert.received">>,
            [alert_name |-> alert_name, alert_criticality |-> criticality,
             alert_source |-> source], i)

\* context_enrich without the business.owner attribute value
context_enrich_NoOwner(sp, act, alert_name, project_id, criticality, business_owner, i) ==
  StartSpan(sp, act, <<"fox.context.enrich">>,
            [alert_name |-> alert_name, project_id |-> project_id,
             alert_criticality |-> criticality,
             business_owner |-> ""], i)

context_enrich(sp, act, alert_name, project_id, criticality, business_owner, i) ==
  StartSpan(sp, act, <<"fox.context.enrich">>,
            [alert_name |-> alert_name, project_id |-> project_id,
             alert_criticality |-> criticality,
             business_owner |-> business_owner], i)

action_span(sp, act, action_name, alert_name, project_id, i) ==
  StartSpan(sp, act, <<"fox.action.", action_name>>,
            [alert_name |-> alert_name, project_id |-> project_id,
             action_name |-> action_name], i)

\* dispatch without span.end()
RECURSIVE DispatchSpans_NoEnd(_, _, _, _, _)
DispatchSpans_NoEnd(sp, act, actions, en, i) ==
  IF actions = <<>> THEN sp
  ELSE LET s == action_span(sp, act, Head(actions), en.alert.name, en.project_id, i)
       IN DispatchSpans_NoEnd(Append(sp, s), act, Tail(actions), en, i)

\* CriticalityRouter.dispatch: the spans after one started-and-ended action
\* span per routed action, in order
RECURSIVE DispatchSpans(_, _, _, _, _)
DispatchSpans(sp, act, actions, en, i) ==
  IF actions = <<>> THEN sp
  ELSE LET s == action_span(sp, act, Head(actions), en.alert.name, en.project_id, i)
       IN DispatchSpans(EndSpan(Append(sp, s), s.id), act, Tail(actions), en, i)

(***************************************************************************)
(* FoxEnrichAction (actions/fox_enrich.py)                                 *)
(***************************************************************************)
\* validate's return value: None or an error string
PyMsg(m) == [t |-> "msg", v |-> m]

MsgEmpty == "Empty payload"
MsgAlerts == "Alertmanager payload must have non-empty 'alerts' array"
MsgName == "Payload must have 'alert_name' or 'alertname'"

\* validate without the check for an empty alerts list
validate_NoEmptyListCheck(p) ==
  IF DOMAIN p = {} THEN PyMsg(MsgEmpty)
  ELSE LET alerts == Get(p, "alerts", PyNone) IN
       IF alerts.t # "none"
       THEN IF alerts.t # "list" THEN PyMsg(MsgAlerts) ELSE PyNone
       ELSE IF /\ ~Truthy(Get(p, "alert_name", PyNone))
               /\ ~Truthy(Get(p, "alertname", PyNone))
            THEN PyMsg(MsgName) ELSE PyNone

\* FoxEnrichAction.validate
validate(p) ==
  IF DOMAIN p = {} THEN PyMsg(MsgEmpty)
  ELSE LET alerts == Get(p, "alerts", PyNone) IN
       IF alerts.t # "none"
       THEN IF alerts.t # "list" \/ Len(alerts.v) = 0
            THEN PyMsg(MsgAlerts) ELSE PyNone
       ELSE IF /\ ~Truthy(Get(p, "alert_name", PyNone))
               /\ ~Truthy(Get(p, "alertname", PyNone))
            THEN PyMsg(MsgName) ELSE PyNone

\* exceptions
NoExc == [type |-> "none", text |-> ""]
AttributeError(x) ==
  [type |-> "AttributeError",
   text |-> CASE x.t = "none" -> "'NoneType' object has no attribute 'get'"
              [] x.t = "str" -> "'str' object has no attribute 'get'"
              [] x.t = "int" -> "'int' object has no attribute 'get'"
              [] x.t = "list" -> "'list' object has no attribute 'get'"]
UnpackError ==
  [type |-> "TypeError", text |-> "cannot unpack non-iterable EnrichedAlert object"]
NotIterable ==
  [type |-> "TypeError", text |-> "'int' object is not iterable"]

\* x.get(k, default) on an arbitrary value: the exception it raises, if any
GetRaises(x) == x.t # "dict"

\* _process_alert, the statements before the first span (lines 150-166):
\* the exception raised while the Alert is built, or NoExc
BuildExc(alert_data) ==
  IF GetRaises(alert_data) THEN AttributeError(alert_data)
  ELSE LET labels == Get(alert_data.v, "labels", PyDict(EmptyDict)) IN
       IF GetRaises(labels) THEN AttributeError(labels) ELSE NoExc

\* _process_alert, lines 150-166: the Alert built from a well-formed record
BuildAlert(alert_data, ctxt) ==
  LET labels == Get(alert_data.v, "labels", PyDict(EmptyDict)).v
      alert_name == Or(Or(LabelGet(labels, "alertname"),
                          Get(alert_data.v, "alert_name", PyNone)),
                       Get(alert_data.v, "alertname", PyStr(s_unknown)))
      source == Get(ctxt, "source",
                    Get(alert_data.v, "source", PyStr(s_alertmanager)))
  IN Alert(alert_name, labels, source)

\* the name the batch failure handler reports (lines 106 and 111):
\* alert_data.get("labels", {}).get("alertname", "unknown")
HandlerRaises(alert_data) ==
  \/ GetRaises(alert_data)
  \/ GetRaises(Get(alert_data.v, "labels", PyDict(EmptyDict)))

HandlerExc(alert_data) ==
  IF GetRaises(alert_data) THEN AttributeError(alert_data)
  ELSE AttributeError(Get(alert_data.v, "labels", PyDict(EmptyDict)))

HandlerName(alert_data) ==
  Get(Get(alert_data.v, "labels", PyDict(EmptyDict)).v, "alertname", s_unknown)

\* what ProjectContextEnricher.enrich returns (enricher.py line 96): the
\* EnrichedAlert alone
enrich_return(en, span_id) == [t |-> "EnrichedAlert", v |-> en]

\* the summary _process_alert returns (lines 182-188)
Summary(alert, en, dispatched) ==
  [alert_name |-> alert.name, project_id |-> en.project_id,
   criticality |-> en.criticality, enriched |-> en.enriched,
   actions_dispatched |-> dispatched]

(***************************************************************************)
(* StepExecutor (contextcore/install/installtracking_stepexecutor.py)      *)
(***************************************************************************)
\* class ExitCode
SUCCESS == 0
STEP_FAILURE == 1
DEPENDENCY_FAILURE == 2

\* StepDefinition.timeout_seconds, the default
DefaultTimeout == 300

\* dataclass StepDefinition; body says what _execute_step finds: "callable"
\* (callable is not None), "command" (only command is not None) or "nothing"
StepDefinition(step_id, body, dependencies, max_retries, idempotent) ==
  [step_id |-> step_id, body |-> body, dependencies |-> dependencies,
   max_retries |-> max_retries, timeout_seconds |-> DefaultTimeout,
   idempotent |-> idempotent]

\* self._steps, a dict in insertion order: the sequence of its values
IsRegistered(steps, step_id) == \E k \in 1..Len(steps) : steps[k].step_id = step_id
StepsGet(steps, step_id) ==
  steps[CHOOSE k \in 1..Len(steps) : steps[k].step_id = step_id]

\* list(self._steps.keys())
StepKeys(steps) == [k \in 1..Len(steps) |-> steps[k].step_id]

\* StepExecutor.register: self._steps[step.step_id] = step
register(steps, step) ==
  IF IsRegistered(steps, step.step_id)
  THEN [k \in 1..Len(steps) |->
          IF steps[k].step_id = step.step_id THEN step ELSE steps[k]]
  ELSE Append(steps, step)

\* the message kept in last_error: a text and the number formatted into it
ErrorText(msg, n) == [msg |-> msg, n |-> n]
NoError == ErrorText("", 0)

\* StateFile (installtracking_statefile.py), as StepExecutor uses it: the
\* recorded status of every step, and the error recorded with a failure
get_step_status(sf, step_id) == sf[step_id].status
mark_running(sf, step_id) == [sf EXCEPT ![step_id].status = "running"]
mark_completed(sf, step_id) == [sf EXCEPT ![step_id].status = "completed"]
mark_failed(sf, step_id, error) ==
  [sf EXCEPT ![step_id] = [status |-> "failed", error |-> error]]

\* check_dependencies answering True whatever the state file says
check_dependencies_Always(steps, sf, step_id) == IsRegistered(steps, step_id)

\* StepExecutor.check_dependencies
check_dependencies(steps, sf, step_id) ==
  IF ~IsRegistered(steps, step_id) THEN FALSE
  ELSE LET step == StepsGet(steps, step_id)
       IN \A k \in 1..Len(step.dependencies) :
            get_step_status(sf, step.dependencies[k]) = "completed"

\* StepExecutor.should_skip
should_skip(steps, sf, step_id) ==
  IF ~IsRegistered(steps, step_id) THEN FALSE
  ELSE IF ~StepsGet(steps, step_id).idempotent THEN FALSE
  ELSE get_step_status(sf, step_id) = "completed"

\* run_step, lines 131-146: the exit code returned before the retry loop, or
\* returns = FALSE when run_step goes on to the loop
gate(steps, sf, dry_run, step_id) ==
  IF ~IsRegistered(steps, step_id)
  THEN [returns |-> TRUE, code |-> STEP_FAILURE]
  ELSE IF ~check_dependencies(steps, sf, step_id)
  THEN [returns |-> TRUE, code |-> DEPENDENCY_FAILURE]
  ELSE IF should_skip(steps, sf, step_id)
  THEN [returns |-> TRUE, code |-> SUCCESS]
  ELSE IF dry_run
  THEN [returns |-> TRUE, code |-> SUCCESS]
  ELSE [returns |-> FALSE, code |-> SUCCESS]

\* what the step's callable or subprocess can do when it is run
BodyOutcomes(step) ==
  CASE step.body = "callable" ->
         {"true", "false", "timeout", "called_process_error", "exception"}
    [] step.body = "command" ->
         {"exit_zero", "exit_nonzero", "timeout", "exception"}
    [] step.body = "nothing" -> {"return"}

\* StepExecutor._execute_step: True, False or the exception raised, and
\* whether it marked the step completed itself (line 218)
execute_step(step, outcome) ==
  CASE step.body = "callable" ->
         [ret |-> IF outcome \in {"true", "false"} THEN outcome ELSE "raise",
          exc |-> outcome, completes |-> FALSE]
    [] step.body = "command" ->
         [ret |-> CASE outcome = "exit_zero" -> "true"
                    [] outcome = "exit_nonzero" -> "false"
                    [] OTHER -> "raise",
          exc |-> outcome, completes |-> outcome = "exit_zero"]
    [] step.body = "nothing" ->
         [ret |-> "true", exc |-> outcome, completes |-> FALSE]

\* run_step, lines 159-165: last_error after a failed attempt
LastError(step, attempt, r) ==
  CASE r.ret = "false" -> ErrorText("Step returned failure on attempt ", attempt)
    [] r.exc = "timeout" -> ErrorText("Step timed out after s", step.timeout_seconds)
    [] r.exc = "called_process_error" -> ErrorText("Command failed with exit code ", 1)
    [] OTHER -> ErrorText("str(e)", 0)

\* a loop that makes one attempt more
InRange_OneMore(attempt, max_retries) == attempt <= max_retries + 1

\* for attempt in range(1, step.max_retries + 1)
InRange(attempt, max_retries) == attempt <= max_retries

\* run_all, line 183: ids = step_ids or list(self._steps.keys())
RunAllIds(step_ids, steps) == Or(step_ids, PyList(StepKeys(steps))).v

(***************************************************************************)
(* Inputs                                                                  *)
(***************************************************************************)
MaxAlerts == 2
MaxCalls == 2
MaxLookups == 4
MaxNow == 300
\* the clock advances in steps of half a cache lifetime
TickStep == CacheTTL \div 2

EmptyLabels == [k \in {} |-> s_empty]

LabelDicts ==
  { EmptyLabels,
    [severity |-> s_critical],
    [alertname |-> s_A1, severity |-> s_CRITICAL],
    [project_id |-> s_p1, severity |-> s_high],
    [project |-> s_p2],
    [namespace |-> s_ns1, severity |-> s_warning],
    [project_id |-> s_empty, project |-> s_p1],
    [project_id |-> s_p2, namespace |-> s_ns1, severity |-> s_low] }

\* values found under the labels key: dicts, null, a string
LabelsVals == {PyDict(l) : l \in LabelDicts} \cup {PyNone, PyStr(s_X)}

OptField(k, vals) == {EmptyDict} \cup {(k :> v) : v \in vals}

\* elements of a batch's alerts list: alert dicts and a non-dict
AlertRecords ==
  {PyDict(f) : f \in OptField("labels", LabelsVals)} \cup {PyStr(s_X)}

BatchLists == UNION {[1..n -> AlertRecords] : n \in 1..MaxAlerts}

BatchPayloads ==
  {("alerts" :> PyList(l)) : l \in BatchLists}
  \cup {("alerts" :> PyList(<<>>)), ("alerts" :> PyInt(5)),
        ("alerts" :> PyInt(5)) @@ ("alert_name" :> PyStr(s_X))}

DirectPayloads ==
  {a @@ b @@ c @@ d :
     a \in OptField("alert_name", {PyStr(s_empty), PyStr(s_X)}),
     b \in OptField("alertname", {PyStr(s_Y)}),
     c \in OptField("labels", LabelsVals),
     d \in OptField("alerts", {PyNone})}

Payloads == BatchPayloads \cup DirectPayloads

Contexts == {EmptyDict, [source |-> PyStr(s_grafana)]}

CtxP1 == ProjectContext(s_p1, s_critical, "commerce-team", <<"commerce-oncall">>,
                        "99.95", "200ms")
CtxP2 == ProjectContext(s_p2, s_High, "platform-team", <<>>, "99.9", "")

NoItems == [k \in {} |-> <<>>]
YamlNone(st) == [state |-> st, doc |-> CtxP1]
YamlDoc(d) == [state |-> "doc", doc |-> d]

\* the default configuration with no context file in place
NoAuthorities ==
  [use_kubernetes |-> FALSE, k8s |-> "no_library", k8s_items |-> NoItems,
   yaml_path |-> TRUE, yaml |-> YamlNone("missing")]

\* a cluster with two projects in one namespace and a context file
BothAuthorities ==
  [use_kubernetes |-> TRUE, k8s |-> "ok",
   k8s_items |-> (s_ns1 :> <<CtxP2, CtxP1>>),
   yaml_path |-> TRUE, yaml |-> YamlDoc(CtxP1)]

\* the reader's configuration and the authorities it consults
Envs ==
  { NoAuthorities,
    [use_kubernetes |-> FALSE, k8s |-> "no_library", k8s_items |-> NoItems,
     yaml_path |-> TRUE, yaml |-> YamlDoc(CtxP1)],
    BothAuthorities,
    [use_kubernetes |-> TRUE, k8s |-> "no_library", k8s_items |-> NoItems,
     yaml_path |-> TRUE, yaml |-> YamlDoc(CtxP2)],
    [use_kubernetes |-> TRUE, k8s |-> "ok",
     k8s_items |-> (s_ns1 :> <<CtxP1>>),
     yaml_path |-> FALSE, yaml |-> YamlNone("malformed")] }

\* authorities that fail
FailingEnvs ==
  { [use_kubernetes |-> TRUE, k8s |-> "api_error",
     k8s_items |-> (s_ns1 :> <<CtxP2>>),
     yaml_path |-> TRUE, yaml |-> YamlDoc(CtxP1)],
    [use_kubernetes |-> TRUE, k8s |-> "no_credentials",
     k8s_items |-> (s_ns1 :> <<CtxP2>>),
     yaml_path |-> TRUE, yaml |-> YamlNone("malformed")],
    [use_kubernetes |-> FALSE, k8s |-> "no_library", k8s_items |-> NoItems,
     yaml_path |-> TRUE, yaml |-> YamlNone("empty")],
    [use_kubernetes |-> TRUE, k8s |-> "ok",
     k8s_items |-> (s_ns1 :> <<CtxP1>>),
     yaml_path |-> TRUE, yaml |-> YamlNone("not_mapping")] }

ReaderEnvs == Envs \cup FailingEnvs

\* lookup's namespace and project_id arguments
Namespaces == {PyNone, PyStr(s_ns1)}
ProjectIds == {PyNone, PyStr(s_p1), PyStr(s_p2)}

\* lookups of callers that use one string both as a namespace and as a
\* project id
SharedNameArgs ==
  { <<PyStr(s_p1), PyNone>>, <<PyNone, PyStr(s_p1)>>,
    <<PyStr(s_ns1), PyStr(s_p1)>>, <<PyStr(s_ns1), PyNone>> }

\* the (namespace, project_id) arguments of the lookups made one at a time
LookupArgs(p) ==
  IF p = "lookup" THEN Namespaces \X ProjectIds ELSE SharedNameArgs

\* the (namespace, project_id) arguments of the concurrent lookups: three
\* cache keys, each resolved by one of the authorities
ConcurrentArgs ==
  { <<PyNone, PyNone>>, <<PyStr(s_ns1), PyNone>>, <<PyStr(s_ns1), PyStr(s_p1)>> }

\* injected routing tables
CustomTable ==
  (s_critical :> <<"escalate">>) @@ (s_high :> <<"escalate">>) @@
  (s_medium :> <<"notify">>) @@ (s_low :> <<"ignore">>)
UpperKeyTable == (s_Critical :> <<"escalate">>) @@ (s_high :> <<"page">>)
TwoCaseTable == (s_critical :> <<"page">>) @@ (s_CRITICAL :> <<"escalate">>)
EmptyTable == [k \in {} |-> <<>>]

RoutingTables ==
  {DefaultRoutingTable, CustomTable, UpperKeyTable, TwoCaseTable, EmptyTable}

Criticalities ==
  {s_critical, s_Critical, s_CRITICAL, s_high, s_High, s_medium, s_low,
   s_unknown, s_empty}

\* installation steps: "a" and "b" can be registered, "x" never is
StepIds == {"a", "b", "x"}
MaxRetries == 2
MaxStepCalls == 3

\* step "a" has no dependencies; step "b" depends on "a"
StepsA ==
  { StepDefinition("a", body, <<>>, MaxRetries, idempotent) :
      body \in {"callable", "command"}, idempotent \in BOOLEAN }
StepsB ==
  { StepDefinition("b", "command", <<"a">>, 1, idempotent) : idempotent \in BOOLEAN }
    \cup { StepDefinition("b", "nothing", <<"a">>, 0, TRUE) }

\* the registries: "a" registered before "b"
Registries == { register(register(<<>>, sa), sb) : sa \in StepsA, sb \in StepsB }

\* the step_ids arguments of run_all
RunAllArgs ==
  { PyNone, PyList(<<>>), PyList(<<"a", "b">>), PyList(<<"b", "a">>),
    PyList(<<"a", "x", "b">>) }

\* a state file in which nothing has been recorded
FreshStateFile == [id \in StepIds |-> [status |-> "pending", error |-> NoError]]

\* no run_step or run_all call is in progress
IdleFrame ==
  [mode |-> "idle", pc |-> "idle", calls |-> 0, arg |-> PyNone, ids |-> <<>>, pos |-> 0,
   step_id |-> "", attempt |-> 0, last_error |-> NoError, events |-> <<>>,
   before |-> FreshStateFile, ran |-> <<>>]


(***************************************************************************)
(* State                                                                   *)
(***************************************************************************)
VARIABLES
  payload,        \* execute's payload argument
  context,        \* execute's context argument
  env,            \* reader configuration and authorities
  pc,             \* position in validate / execute
  validation,     \* what validate returned
  idx,            \* position in the batch (0: direct payload)
  alert,          \* the Alert being processed
  enriched,       \* the EnrichedAlert built by enrich
  ret,            \* the value enrich returned
  result,         \* the summary _process_alert returned
  exc,            \* the exception _process_alert raised
  results,        \* execute's results list
  failures,       \* execute's failures counter
  outcome,        \* how execute ended
  spans,          \* every span started, by span id
  active,         \* the stack of spans current in the context
  cache,          \* ProjectContextReader._cache
  now,            \* time.monotonic()
  enrich_log,     \* the enrich calls made: alert, reader's answer, result
  raised,         \* the positions whose _process_alert call raised
  routing_table,  \* CriticalityRouter._config.routing_table
  route_calls,    \* the route calls made: argument and returned list
  calls,          \* the router calls in order, with the list object each returned
  lookups,        \* the lookup calls made on the reader alone, in order
  threads,        \* the lookup invocations running concurrently
  steps,          \* StepExecutor._steps
  dry_run,        \* StepExecutor.dry_run
  state_file,     \* StepExecutor.state_file: status and error of each step
  frame,          \* the run_step / run_all call in progress
  step_log,       \* the run_step call that has just returned
  all_log         \* the run_all call that has just returned

vars == <<payload, context, env, pc, validation, idx, alert, enriched, ret,
          result, exc, results, failures, outcome, spans, active, cache, now,
          enrich_log, raised, routing_table, route_calls, calls, lookups,
          threads, steps, dry_run, state_file, frame, step_log, all_log>>

pipeline_vars == <<payload, context, env, pc, validation, idx, alert, enriched,
                   ret, result, exc, results, failures, outcome, spans, active,
                   cache, now, enrich_log, raised>>

router_vars == <<routing_table, route_calls, calls>>

reader_vars == <<lookups, threads>>

step_vars == <<steps, dry_run, state_file, frame, step_log, all_log>>

NoAlert == Alert(PyNone, EmptyLabels, PyNone)

\* the threads that call lookup on the one reader, and a thread outside lookup
Threads == {1, 2}
IdleThread ==
  [pc |-> "idle", namespace |-> PyNone, project_id |-> PyNone,
   key |-> s_empty, now |-> 0, ctx |-> PyNone, size |-> 0,
   expired |-> <<>>, oldest |-> s_empty]
NoEnriched == enrich(NoAlert, PyNone)
NoOutcome == [kind |-> "none"]

IsBatch == Get(payload, "alerts", PyNone).t # "none"

\* the record _process_alert is working on
alert_data == IF IsBatch THEN payload["alerts"].v[idx] ELSE PyDict(payload)

InitPipeline(pc0) ==
  /\ pc = pc0
  /\ validation = PyNone
  /\ idx = 0
  /\ alert = NoAlert
  /\ enriched = NoEnriched
  /\ ret = PyNone
  /\ result = PyNone
  /\ exc = NoExc
  /\ results = <<>>
  /\ failures = 0
  /\ outcome = NoOutcome
  /\ spans = <<>>
  /\ active = <<>>
  /\ cache = <<>>
  /\ now = 0
  /\ enrich_log = <<>>
  /\ raised = {}
  /\ lookups = <<>>
  /\ threads = [t \in Threads |-> IdleThread]
  /\ steps = <<>>
  /\ dry_run = FALSE
  /\ state_file = FreshStateFile
  /\ frame = IdleFrame
  /\ step_log = <<>>
  /\ all_log = <<>>

Init ==
  /\ payload \in Payloads
  /\ context \in Contexts
  /\ env \in Envs
  /\ InitPipeline("validate")
  /\ routing_table = DefaultRoutingTable
  /\ route_calls = {}
  /\ calls = <<>>

(***************************************************************************)
(* The pipeline: validate, then execute                                    *)
(***************************************************************************)
Returned(status, message, data) ==
  [kind |-> "returned", status |-> status, action_name |-> "fox_enrich",
   message |-> message, data |-> data]

Raised(e) == [kind |-> "raised", exc |-> e]

\* the direct branch letting the exception escape
DirectOutcome_Propagates(e, r) ==
  IF e.type = "none"
  THEN [kind |-> "returned", status |-> "success", action_name |-> "fox_enrich",
        message |-> <<"Enriched alert: ", r.v.alert_name>>, data |-> r.v]
  ELSE [kind |-> "raised", exc |-> e]

\* execute, lines 129-144: how the direct branch ends, given the exception
\* _process_alert raised (NoExc: none) and the summary it returned
DirectOutcome(e, r) ==
  IF e.type = "none"
  THEN Returned("success", <<"Enriched alert: ", r.v.alert_name>>, r.v)
  ELSE Returned("failed", <<"Failed to enrich alert: ", e.text>>,
                [error |-> e.text])

\* the surrounding framework calls validate first
Validate ==
  /\ pc = "validate"
  /\ validation' = validate(payload)
  /\ pc' = "execute"
  /\ UNCHANGED <<payload, context, env, idx, alert, enriched, ret, result, exc,
                 results, failures, outcome, spans, active, cache, now,
                 enrich_log, raised, router_vars, reader_vars, step_vars>>

\* execute, lines 93-99 and 127-130: pick the batch or the direct branch
ExecuteBegin ==
  /\ pc = "execute"
  /\ LET alerts == Get(payload, "alerts", PyNone) IN
       IF alerts.t = "none"
       THEN /\ idx' = 0
            /\ pc' = "process"
            /\ outcome' = outcome
       ELSE IF alerts.t = "list"
       THEN /\ idx' = IF Len(alerts.v) = 0 THEN 0 ELSE 1
            /\ pc' = IF Len(alerts.v) = 0 THEN "return" ELSE "process"
            /\ outcome' = outcome
       ELSE /\ idx' = 0
            /\ pc' = "done"
            /\ outcome' = Raised(NotIterable)
  /\ UNCHANGED <<payload, context, env, validation, alert, enriched, ret,
                 result, exc, results, failures, spans, active, cache, now,
                 enrich_log, raised, router_vars, reader_vars, step_vars>>

\* _process_alert, lines 150-174: build the Alert, start the received span
\* and make it current
ProcessAlert ==
  /\ pc = "process"
  /\ LET e == BuildExc(alert_data) IN
       IF e.type # "none"
       THEN /\ exc' = e
            /\ raised' = raised \cup {idx}
            /\ pc' = "handle"
            /\ alert' = NoAlert
            /\ UNCHANGED <<spans, active>>
       ELSE LET a == BuildAlert(alert_data, context)
                s == alert_received(spans, active, a.name,
                                    Get(a.labels, "severity", s_medium),
                                    a.source, idx)
                w == use_span(Append(spans, s), active, s.id)
            IN /\ alert' = a
               /\ spans' = w.spans
               /\ active' = w.active
               /\ exc' = NoExc
               /\ raised' = raised
               /\ pc' = "enrich"
  /\ enriched' = NoEnriched
  /\ ret' = PyNone
  /\ result' = PyNone
  /\ UNCHANGED <<payload, context, env, validation, idx, results, failures,
                 outcome, cache, now, enrich_log, router_vars, reader_vars, step_vars>>

\* the monotonic clock advances; it is read by lookup only
Tick ==
  /\ pc \in {"enrich", "lookup", "lookup_names"}
  /\ now + TickStep <= MaxNow
  /\ now' = now + TickStep
  /\ UNCHANGED <<payload, context, env, pc, validation, idx, alert, enriched,
                 ret, result, exc, results, failures, outcome, spans, active,
                 cache, enrich_log, raised, router_vars, reader_vars, step_vars>>

\* ProjectContextEnricher.enrich, called at fox_enrich.py line 176: look the
\* context up, build the EnrichedAlert, start the enrich span, end it, return
Enrich ==
  /\ pc = "enrich"
  /\ LET r == lookup(cache, now, env, LookupNamespace(alert), LookupProjectId(alert))
         en == enrich(alert, r.ret)
         s == context_enrich(spans, active, alert.name, en.project_id,
                             en.criticality, en.business_owner, idx)
     IN /\ cache' = r.cache
        /\ enriched' = en
        /\ spans' = EndSpan(Append(spans, s), s.id)
        /\ ret' = enrich_return(en, s.id)
        /\ enrich_log' = Append(enrich_log,
                                [alert |-> alert, ctx |-> r.ret, enriched |-> en,
                                 idx |-> idx,
                                 first |-> Len(spans), last |-> Len(spans) + 1])
  /\ pc' = "unpack"
  /\ UNCHANGED <<payload, context, env, validation, idx, alert, result, exc,
                 results, failures, outcome, active, now, raised, router_vars, reader_vars, step_vars>>

\* _process_alert, lines 176-188: unpack enrich's return value into
\* (enriched, enrich_span), dispatch inside the enrich span, leave both
\* with-blocks (each ends its span, also when an exception passes through)
UnpackDispatch ==
  /\ pc = "unpack"
  /\ IF ret.t = "tuple"
     THEN LET en == ret.v[1]
              sid == ret.v[2]
              actions == route(routing_table, en)
              inner == use_span(spans, active, sid)
              sp == DispatchSpans(inner.spans, inner.active, actions, en, idx)
              w == exit_use_span(sp, inner.active)
              x == exit_use_span(w.spans, w.active)
          IN /\ spans' = x.spans
             /\ active' = x.active
             /\ result' = [t |-> "summary", v |-> Summary(alert, en, actions)]
             /\ exc' = NoExc
             /\ raised' = raised
     ELSE LET x == exit_use_span(spans, active)
          IN /\ spans' = x.spans
             /\ active' = x.active
             /\ result' = PyNone
             /\ exc' = UnpackError
             /\ raised' = raised \cup {idx}
  /\ pc' = "handle"
  /\ UNCHANGED <<payload, context, env, validation, idx, alert, enriched, ret,
                 results, failures, outcome, cache, now, enrich_log, router_vars, reader_vars, step_vars>>

\* a loop that takes the same record again
NextIndex_Retry(i) == i

\* for alert_data in alerts: the position of the next record
NextIndex(i) == i + 1

\* an append that puts the new element first
list_append_Front(l, x) == <<x>> \o l

\* list.append
list_append(l, x) == Append(l, x)

\* execute, lines 100-114 (batch: append the result or record the failure)
\* and lines 129-144 (direct: return SUCCESS or FAILED)
CompleteAlert ==
  /\ pc = "handle"
  /\ IF IsBatch
     THEN LET more == idx < Len(payload["alerts"].v)
              next == /\ idx' = IF more THEN NextIndex(idx) ELSE idx
                      /\ pc' = IF more THEN "process" ELSE "return"
                      /\ outcome' = outcome
          IN IF exc.type = "none"
             THEN /\ results' = list_append(results, result.v)
                  /\ failures' = failures
                  /\ next
             ELSE IF HandlerRaises(alert_data)
             THEN /\ outcome' = Raised(HandlerExc(alert_data))
                  /\ pc' = "done"
                  /\ UNCHANGED <<idx, results, failures>>
             ELSE /\ failures' = failures + 1
                  /\ results' = list_append(results,
                                       [error |-> exc.text,
                                        alert_name |-> PyStr(HandlerName(alert_data))])
                  /\ next
     ELSE /\ outcome' = DirectOutcome(exc, result)
          /\ pc' = "done"
          /\ UNCHANGED <<idx, results, failures>>
  /\ UNCHANGED <<payload, context, env, validation, alert, enriched, ret, result,
                 exc, spans, active, cache, now, enrich_log, raised, router_vars, reader_vars, step_vars>>

\* execute, lines 116-126: the batch result
ReturnBatch ==
  /\ pc = "return"
  /\ outcome' = Returned(IF failures = 0 THEN "success" ELSE "failed",
                         <<"Processed ", Len(results), " alerts (", failures,
                           " failures)">>,
                         [alerts_processed |-> Len(results),
                          failures |-> failures, results |-> results])
  /\ pc' = "done"
  /\ UNCHANGED <<payload, context, env, validation, idx, alert, enriched, ret,
                 result, exc, results, failures, spans, active, cache, now,
                 enrich_log, raised, router_vars, reader_vars, step_vars>>

Next ==
  \/ Validate
  \/ ExecuteBegin
  \/ ProcessAlert
  \/ Tick
  \/ Enrich
  \/ UnpackDispatch
  \/ CompleteAlert
  \/ ReturnBatch

Spec == Init /\ [][Next]_vars

(***************************************************************************)
(* The router on its own, with an injected routing table                   *)
(***************************************************************************)
\* an EnrichedAlert with the given criticality
MakeEnriched(criticality) ==
  [alert |-> Alert(PyStr(s_A1), EmptyLabels, PyStr(s_alertmanager)),
   project_id |-> s_p1, criticality |-> criticality,
   business_owner |-> "test-team", alert_channels |-> <<>>,
   availability_slo |-> "", latency_p99 |-> "", enriched |-> TRUE]

InitRouter ==
  /\ payload = EmptyDict
  /\ context = EmptyDict
  /\ env = NoAuthorities
  /\ InitPipeline("idle")
  /\ routing_table \in RoutingTables
  /\ route_calls = {}
  /\ calls = <<>>

\* the record of one router call: the value returned, the list object the
\* caller holds (its contents now, the table keys it is the list of), the
\* spans present before and after the call, and how many lists returned
\* earlier had been changed by their callers when the call was made
CallRecord(op, en, returned, first, last) ==
  [op |-> op, enriched |-> en,
   returned |-> returned,
   list |-> returned,
   shares |-> RouteShares(routing_table, en),
   first |-> first, last |-> last,
   seen |-> Cardinality({k \in 1..Len(calls) : calls[k].list # calls[k].returned})]

\* one call of CriticalityRouter.route
RouteCall ==
  /\ Len(calls) < MaxCalls
  /\ \E c \in Criticalities :
       /\ route_calls' = route_calls \cup
            {[enriched |-> MakeEnriched(c),
              actions |-> route(routing_table, MakeEnriched(c))]}
       /\ calls' = Append(calls, CallRecord("route", MakeEnriched(c),
                                            route(routing_table, MakeEnriched(c)),
                                            Len(spans), Len(spans)))
  /\ UNCHANGED <<pipeline_vars, routing_table, reader_vars, step_vars>>

\* one call of CriticalityRouter.dispatch outside any span: route, then one
\* span per action, then return the list route returned
DispatchCall ==
  /\ Len(calls) < MaxCalls
  /\ \E c \in Criticalities :
       LET en == MakeEnriched(c)
           actions == route(routing_table, en)
           sp == DispatchSpans(spans, active, actions, en, 0)
       IN /\ spans' = sp
          /\ route_calls' = route_calls \cup {[enriched |-> en, actions |-> actions]}
          /\ calls' = Append(calls, CallRecord("dispatch", en, actions,
                                            Len(spans), Len(sp)))
  /\ UNCHANGED <<payload, context, env, pc, validation, idx, alert, enriched,
                 ret, result, exc, results, failures, outcome, active, cache,
                 now, enrich_log, raised, routing_table, reader_vars, step_vars>>

\* a caller appends to a list an earlier call returned (at most once per
\* list); the table's lists that are that same object change with it
MutateReturned ==
  /\ \E k \in 1..Len(calls) :
       /\ calls[k].list = calls[k].returned
       /\ calls' = [calls EXCEPT ![k].list = Append(@, "injected")]
       /\ routing_table' =
            [key \in DOMAIN routing_table |->
               IF key \in calls[k].shares
               THEN Append(routing_table[key], "injected")
               ELSE routing_table[key]]
  /\ UNCHANGED <<pipeline_vars, route_calls, reader_vars, step_vars>>

NextRouter ==
  \/ RouteCall
  \/ DispatchCall
  \/ MutateReturned

SpecRouter == InitRouter /\ [][NextRouter]_vars

(***************************************************************************)
(* The reader on its own: lookup calls made one at a time                  *)
(***************************************************************************)
InitReader ==
  /\ payload = EmptyDict
  /\ context = EmptyDict
  /\ env \in ReaderEnvs
  /\ InitPipeline("lookup")
  /\ routing_table = DefaultRoutingTable
  /\ route_calls = {}
  /\ calls = <<>>

\* one call of ProjectContextReader.lookup, from entry to return
LookupCall ==
  /\ pc \in {"lookup", "lookup_names"}
  /\ Len(lookups) < MaxLookups
  /\ \E args \in LookupArgs(pc) :
       LET namespace == args[1]
           project_id == args[2]
           r == lookup(cache, now, env, namespace, project_id)
       IN /\ cache' = r.cache
          /\ lookups' = Append(lookups,
               [namespace |-> namespace, project_id |-> project_id,
                key |-> Or(Or(project_id, namespace), PyStr(s_empty)).v,
                time |-> now, ret |-> r.ret, asked |-> r.asked,
                before |-> cache, after |-> r.cache])
  /\ UNCHANGED <<payload, context, env, pc, validation, idx, alert, enriched,
                 ret, result, exc, results, failures, outcome, spans, active,
                 now, enrich_log, raised, router_vars, threads, step_vars>>

NextReader ==
  \/ LookupCall
  \/ Tick

SpecReader == InitReader /\ [][NextReader]_vars

\* the reader called with a namespace that is spelled like a project id
InitReaderNames ==
  /\ payload = EmptyDict
  /\ context = EmptyDict
  /\ env \in Envs
  /\ InitPipeline("lookup_names")
  /\ routing_table = DefaultRoutingTable
  /\ route_calls = {}
  /\ calls = <<>>

SpecReaderNames == InitReaderNames /\ [][NextReader]_vars

(***************************************************************************)
(* The reader called by several threads: lookup, one dict operation a step *)
(***************************************************************************)
InitConcurrent ==
  /\ payload = EmptyDict
  /\ context = EmptyDict
  /\ env = BothAuthorities
  /\ InitPipeline("lookup")
  /\ routing_table = DefaultRoutingTable
  /\ route_calls = {}
  /\ calls = <<>>

conc_frame == <<payload, context, env, pc, validation, idx, alert, enriched,
                ret, result, exc, results, failures, outcome, spans, active,
                now, enrich_log, raised, router_vars, step_vars>>

\* lookup calls begun so far
Started == Len(lookups) + Cardinality({t \in Threads : threads[t].pc # "idle"})

\* the lookup of thread th returns r, or raises when r is an exception
ReturnRecord(t, th, r) ==
  [thread |-> t, namespace |-> th.namespace, project_id |-> th.project_id,
   key |-> th.key, time |-> th.now, ret |-> r]

Return(t, r) ==
  /\ lookups' = Append(lookups, ReturnRecord(t, threads[t], r))
  /\ threads' = [threads EXCEPT ![t] = IdleThread]

\* lines 64-70: cache_key, now, self._cache.get and the hit test
CEnter(t) ==
  /\ pc = "lookup"
  /\ threads[t].pc = "idle"
  /\ Started < MaxLookups
  /\ \E args \in ConcurrentArgs :
       LET namespace == args[1]
           project_id == args[2]
           key == Or(Or(project_id, namespace), PyStr(s_empty)).v
           th == [IdleThread EXCEPT !.pc = "pop", !.namespace = namespace,
                                    !.project_id = project_id, !.key = key,
                                    !.now = now]
       IN IF key \in CacheKeys(cache) /\ now < CacheEntry(cache, key).expires_at
          THEN /\ lookups' = Append(lookups,
                     ReturnRecord(t, th, PyCtx(CacheEntry(cache, key).context)))
               /\ UNCHANGED threads
          ELSE /\ threads' = [threads EXCEPT ![t] = th]
               /\ UNCHANGED lookups
  /\ UNCHANGED <<cache, conc_frame>>

\* line 73: self._cache.pop(cache_key, None)
CPop(t) ==
  /\ threads[t].pc = "pop"
  /\ cache' = CachePop(cache, threads[t].key)
  /\ threads' = [threads EXCEPT ![t].pc = "resolve"]
  /\ UNCHANGED <<lookups, conc_frame>>

\* lines 75-84: ask the authorities; with a context, test len(self._cache)
CResolve(t) ==
  /\ threads[t].pc = "resolve"
  /\ LET th == threads[t]
         k8s == IF env.use_kubernetes
                THEN lookup_kubernetes(env, th.namespace, th.project_id)
                ELSE PyNone
         ctx == IF k8s.t = "none" /\ env.yaml_path
                THEN from_yaml(env, th.project_id) ELSE k8s
     IN IF ctx.t # "ctx" THEN Return(t, ctx)
        ELSE /\ threads' = [threads EXCEPT
                   ![t].ctx = ctx,
                   ![t].pc = IF Len(cache) >= MAX_CACHE_SIZE
                             THEN "iter" ELSE "check2"]
             /\ UNCHANGED lookups
  /\ UNCHANGED <<cache, conc_frame>>

\* line 99: the iteration over self._cache.items() begins
CIterBegin(t) ==
  /\ threads[t].pc = "iter"
  /\ threads' = [threads EXCEPT ![t].size = Len(cache), ![t].pc = "collect"]
  /\ UNCHANGED <<cache, lookups, conc_frame>>

\* line 99: the iteration ends; a dict whose size changed meanwhile makes
\* the iterator raise RuntimeError
CIterEnd(t) ==
  /\ threads[t].pc = "collect"
  /\ IF Len(cache) # threads[t].size
     THEN Return(t, PyRaise("RuntimeError"))
     ELSE LET expired == SelectSeq(cache, LAMBDA e : threads[t].now >= e.expires_at)
              keys == [n \in 1..Len(expired) |-> expired[n].key]
          IN /\ threads' = [threads EXCEPT
                   ![t].expired = keys,
                   ![t].pc = IF keys = <<>> THEN "check2" ELSE "del_expired"]
             /\ UNCHANGED lookups
  /\ UNCHANGED <<cache, conc_frame>>

\* lines 100-101: del self._cache[k] for the next expired key
CDelExpired(t) ==
  /\ threads[t].pc = "del_expired"
  /\ LET k == Head(threads[t].expired) IN
       IF k \notin CacheKeys(cache)
       THEN Return(t, PyRaise("KeyError")) /\ UNCHANGED cache
       ELSE /\ cache' = CachePop(cache, k)
            /\ threads' = [threads EXCEPT
                  ![t].expired = Tail(@),
                  ![t].pc = IF Tail(threads[t].expired) = <<>>
                            THEN "check2" ELSE "del_expired"]
            /\ UNCHANGED lookups
  /\ UNCHANGED conc_frame

\* line 87: the second test of len(self._cache)
CCheck2(t) ==
  /\ threads[t].pc = "check2"
  /\ threads' = [threads EXCEPT
        ![t].pc = IF Len(cache) >= MAX_CACHE_SIZE THEN "min" ELSE "store"]
  /\ UNCHANGED <<cache, lookups, conc_frame>>

\* line 88: min(self._cache, ...) begins; min of an empty dict raises
CMinBegin(t) ==
  /\ threads[t].pc = "min"
  /\ IF cache = <<>>
     THEN Return(t, PyRaise("ValueError"))
     ELSE /\ threads' = [threads EXCEPT ![t].size = Len(cache), ![t].pc = "min_end"]
          /\ UNCHANGED lookups
  /\ UNCHANGED <<cache, conc_frame>>

\* line 88: min(...) ends with the key expiring first
CMinEnd(t) ==
  /\ threads[t].pc = "min_end"
  /\ IF Len(cache) # threads[t].size
     THEN Return(t, PyRaise("RuntimeError"))
     ELSE /\ threads' = [threads EXCEPT ![t].oldest = OldestKey(cache),
                                         ![t].pc = "del_oldest"]
          /\ UNCHANGED lookups
  /\ UNCHANGED <<cache, conc_frame>>

\* line 89: del self._cache[oldest_key]
CDelOldest(t) ==
  /\ threads[t].pc = "del_oldest"
  /\ IF threads[t].oldest \notin CacheKeys(cache)
     THEN Return(t, PyRaise("KeyError")) /\ UNCHANGED cache
     ELSE /\ cache' = CachePop(cache, threads[t].oldest)
          /\ threads' = [threads EXCEPT ![t].pc = "store"]
          /\ UNCHANGED lookups
  /\ UNCHANGED conc_frame

\* lines 90-95: self._cache[cache_key] = _CacheEntry(...); return ctx
CStore(t) ==
  /\ threads[t].pc = "store"
  /\ LET th == threads[t]
         entry == [key |-> th.key, context |-> th.ctx.v,
                   expires_at |-> th.now + CacheTTL]
     IN cache' = IF th.key \in CacheKeys(cache)
                 THEN [n \in 1..Len(cache) |->
                         IF cache[n].key = th.key THEN entry ELSE cache[n]]
                 ELSE Append(cache, entry)
  /\ Return(t, threads[t].ctx)
  /\ UNCHANGED conc_frame

NextConcurrent ==
  \/ \E t \in Threads :
       \/ CEnter(t)
       \/ CPop(t)
       \/ CResolve(t)
       \/ CIterBegin(t)
       \/ CIterEnd(t)
       \/ CDelExpired(t)
       \/ CCheck2(t)
       \/ CMinBegin(t)
       \/ CMinEnd(t)
       \/ CDelOldest(t)
       \/ CStore(t)
  \/ Tick

SpecConcurrent == InitConcurrent /\ [][NextConcurrent]_vars

(***************************************************************************)
(* The step executor: run_step and run_all calls made one at a time         *)
(***************************************************************************)
InitSteps ==
  /\ payload = EmptyDict
  /\ context = EmptyDict
  /\ env = NoAuthorities
  /\ pc = "steps"
  /\ validation = PyNone
  /\ idx = 0
  /\ alert = NoAlert
  /\ enriched = NoEnriched
  /\ ret = PyNone
  /\ result = PyNone
  /\ exc = NoExc
  /\ results = <<>>
  /\ failures = 0
  /\ outcome = NoOutcome
  /\ spans = <<>>
  /\ active = <<>>
  /\ cache = <<>>
  /\ now = 0
  /\ enrich_log = <<>>
  /\ raised = {}
  /\ lookups = <<>>
  /\ threads = [t \in Threads |-> IdleThread]
  /\ routing_table = DefaultRoutingTable
  /\ route_calls = {}
  /\ calls = <<>>
  /\ steps \in Registries
  /\ dry_run \in BOOLEAN
  /\ state_file = FreshStateFile
  /\ frame = IdleFrame
  /\ step_log = <<>>
  /\ all_log = <<>>

steps_frame == <<pipeline_vars, router_vars, reader_vars, steps, dry_run>>

\* something StepExecutor did during a run_step call: a call of the state
\* file ("mark_running", "mark_completed", "mark_failed") or a run of the
\* step's callable or subprocess ("body")
StepEvent(e, attempt, did, error) ==
  [e |-> e, attempt |-> attempt, outcome |-> did, error |-> error]

\* the executor between two calls, after the call of frame f
Idle(f) == [IdleFrame EXCEPT !.calls = f.calls]

\* frame f on entry to a call made from outside
Called(f, mode) == [IdleFrame EXCEPT !.calls = f.calls + 1, !.mode = mode]

\* the run_step call of frame f returns code, having done events and left
\* the state file as sf; inside run_all (lines 185-190) the loop goes on
\* after SUCCESS and run_all returns any other code at once
Finish(f, code, events, sf) ==
  LET ran == Append(f.ran, [step_id |-> f.step_id, result |-> code]) IN
  /\ step_log' = << [step_id |-> f.step_id, result |-> code, events |-> events,
                     before |-> f.before, after |-> sf] >>
  /\ IF f.mode = "run_step"
     THEN /\ frame' = Idle(f)
          /\ all_log' = <<>>
     ELSE IF code # SUCCESS
     THEN /\ frame' = Idle(f)
          /\ all_log' = << [arg |-> f.arg, ran |-> ran, result |-> code] >>
     ELSE /\ frame' = [f EXCEPT !.pc = "next", !.ran = ran]
          /\ all_log' = <<>>

\* run_step(step_id) is entered in frame f: lines 131-146
Enter(f, step_id) ==
  LET g == gate(steps, state_file, dry_run, step_id)
      f1 == [f EXCEPT !.step_id = step_id, !.before = state_file,
                      !.events = <<>>, !.attempt = 1, !.last_error = NoError]
  IN /\ state_file' = state_file
     /\ IF g.returns
        THEN Finish(f1, g.code, <<>>, state_file)
        ELSE /\ frame' = [f1 EXCEPT !.pc = "loop"]
             /\ step_log' = <<>>
             /\ all_log' = <<>>

\* a caller calls run_step
RunStepCall ==
  /\ frame.mode = "idle"
  /\ frame.calls < MaxStepCalls
  /\ \E step_id \in StepIds : Enter(Called(frame, "run_step"), step_id)
  /\ UNCHANGED steps_frame

\* a caller calls run_all: line 183
RunAllCall ==
  /\ frame.mode = "idle"
  /\ frame.calls < MaxStepCalls
  /\ \E step_ids \in RunAllArgs :
       frame' = [Called(frame, "run_all") EXCEPT
                   !.pc = "next", !.arg = step_ids,
                   !.ids = RunAllIds(step_ids, steps)]
  /\ step_log' = <<>>
  /\ all_log' = <<>>
  /\ UNCHANGED <<steps_frame, state_file>>

\* run_all, lines 185-190: the next step_id of the loop, or the end of it
RunAllNext ==
  /\ frame.pc = "next"
  /\ IF frame.pos = Len(frame.ids)
     THEN /\ all_log' = << [arg |-> frame.arg, ran |-> frame.ran,
                            result |-> SUCCESS] >>
          /\ frame' = Idle(frame)
          /\ step_log' = <<>>
          /\ UNCHANGED state_file
     ELSE Enter([frame EXCEPT !.pos = @ + 1], frame.ids[frame.pos + 1])
  /\ UNCHANGED steps_frame

\* run_step, lines 150-169: one pass of the retry loop
Attempt ==
  /\ frame.pc = "loop"
  /\ LET step == StepsGet(steps, frame.step_id) IN
       /\ InRange(frame.attempt, step.max_retries)
       /\ \E did \in BodyOutcomes(step) :
            LET r == execute_step(step, did)
                sf1 == mark_running(state_file, step.step_id)
                sf2 == IF r.completes THEN mark_completed(sf1, step.step_id) ELSE sf1
                ev == frame.events \o
                        << StepEvent("mark_running", frame.attempt, "", NoError),
                           StepEvent("body", frame.attempt, did, NoError) >> \o
                        (IF r.completes
                         THEN << StepEvent("mark_completed", frame.attempt, "", NoError) >>
                         ELSE <<>>)
            IN IF r.ret = "true"
               THEN /\ state_file' = mark_completed(sf2, step.step_id)
                    /\ Finish(frame, SUCCESS,
                              Append(ev, StepEvent("mark_completed", frame.attempt,
                                                   "", NoError)),
                              mark_completed(sf2, step.step_id))
               ELSE /\ state_file' = sf2
                    /\ frame' = [frame EXCEPT
                                   !.attempt = @ + 1,
                                   !.last_error = LastError(step, frame.attempt, r),
                                   !.events = ev]
                    /\ UNCHANGED <<step_log, all_log>>
  /\ UNCHANGED steps_frame

\* run_step, lines 171-172: the loop is over without a success
Exhausted ==
  /\ frame.pc = "loop"
  /\ ~InRange(frame.attempt, StepsGet(steps, frame.step_id).max_retries)
  /\ state_file' = mark_failed(state_file, frame.step_id, frame.last_error)
  /\ Finish(frame, STEP_FAILURE,
            Append(frame.events,
                   StepEvent("mark_failed", frame.attempt - 1, "", frame.last_error)),
            mark_failed(state_file, frame.step_id, frame.last_error))
  /\ UNCHANGED steps_frame

NextSteps ==
  \/ RunStepCall
  \/ RunAllCall
  \/ RunAllNext
  \/ Attempt
  \/ Exhausted

SpecSteps == InitSteps /\ [][NextSteps]_vars

(***************************************************************************)
(* Properties                                                              *)
(***************************************************************************)
Alerts == Get(payload, "alerts", PyNone)
IsBatchList == Alerts.t = "list"
Done == pc = "done"
Validated == pc \notin {"validate", "idle"}
Accepted == Validated /\ validation.t = "none"

\* an alert record that is a dict whose labels value (when present) is a dict
RecordOK(r) == r.t = "dict" /\ Get(r.v, "labels", PyDict(EmptyDict)).t = "dict"
WellFormed ==
  IF IsBatchList THEN \A i \in 1..Len(Alerts.v) : RecordOK(Alerts.v[i])
  ELSE ~IsBatch /\ RecordOK(PyDict(payload))

SpansOf(i) == {k \in 1..Len(spans) : spans[k].alert = i}

\* C1: a batch of N alert records of which M raise is processed to the end:
\* execute returns data with alerts_processed = N and failures = M, every
\* failed record's entry carries an error field, and the status is FAILED
\* exactly when M > 0.
C1_BatchCounts ==
  (Done /\ IsBatchList /\ \A i \in 1..Len(Alerts.v) : Alerts.v[i].t = "dict") =>
     /\ outcome.kind = "returned"
     /\ outcome.data.alerts_processed = Len(Alerts.v)
     /\ outcome.data.failures = Cardinality(raised)
     /\ \A i \in raised : "error" \in DOMAIN outcome.data.results[i]
     /\ (outcome.status = "failed") <=> (Cardinality(raised) > 0)

\* C2: for every payload validate accepts, execute returns a structured
\* result; no exception escapes to the caller.
C2_NeverRaises ==
  (Done /\ Accepted) => outcome.kind = "returned"

\* C3: processing one alert leaves exactly one fox.alert.received span with
\* no parent, exactly one fox.context.enrich span whose parent is that span,
\* and exactly one fox.action.<name> span per action the alert is routed to,
\* whose parent is the enrich span; all share one trace id.
C3_SpanTree ==
  (pc = "handle" /\ Accepted /\ ret.t # "none") =>
    LET mine == SpansOf(idx)
        rec == {k \in mine : spans[k].name = <<"fox.alert.received">>}
        enr == {k \in mine : spans[k].name = <<"fox.context.enrich">>}
        act == {k \in mine : spans[k].name[1] = "fox.action."}
        dispatched == route(routing_table, enriched)
    IN /\ Cardinality(rec) = 1
       /\ \A k \in rec : spans[k].parent = 0
       /\ Cardinality(enr) = 1
       /\ \A k \in enr : spans[k].parent \in rec
       /\ \A k \in mine : \A r \in rec : spans[k].trace_id = spans[r].trace_id
       /\ \A k \in act : spans[k].parent \in enr
       /\ Cardinality(act) = Len(dispatched)
       /\ \A j \in 1..Len(dispatched) :
            Cardinality({k \in act : spans[k].name[2] = dispatched[j]}) = 1

\* the summary of one alert names its routing-table entry
SummaryOK(r) ==
  /\ DOMAIN r = {"alert_name", "project_id", "criticality", "enriched",
                 "actions_dispatched"}
  /\ r.actions_dispatched = Get(DefaultRoutingTable, Lower(r.criticality), <<"log">>)

\* C4: for an accepted payload whose records are dicts with dict labels,
\* execute returns SUCCESS, with one summary per alert whose
\* actions_dispatched is the routing-table entry of its criticality, and a
\* batch of N alerts reports alerts_processed = N and 0 failures.
C4_Success ==
  (Done /\ Accepted /\ WellFormed) =>
     /\ outcome.kind = "returned"
     /\ outcome.status = "success"
     /\ IF IsBatch
        THEN /\ outcome.data.alerts_processed = Len(Alerts.v)
             /\ outcome.data.failures = 0
             /\ \A i \in 1..Len(Alerts.v) : SummaryOK(outcome.data.results[i])
        ELSE SummaryOK(outcome.data)

\* the three rejected shapes of a payload
PayloadEmpty == DOMAIN payload = {}
PayloadBadAlerts ==
  ~PayloadEmpty /\ Alerts.t # "none" /\ ~(Alerts.t = "list" /\ Len(Alerts.v) > 0)
PayloadNoName ==
  /\ ~PayloadEmpty
  /\ Alerts.t = "none"
  /\ \A k \in {"alert_name", "alertname"} :
       k \notin DOMAIN payload \/ payload[k].v = <<>>

\* C5: validate returns an error string exactly for an empty payload, for an
\* alerts value that is not a non-empty list, and for a payload without
\* alerts that has no non-empty alert_name or alertname, each with its own
\* message; for every other payload it returns None.
C5_Validate ==
  Validated =>
     /\ validation.t \in {"none", "msg"}
     /\ (validation.t = "msg") <=> (PayloadEmpty \/ PayloadBadAlerts \/ PayloadNoName)
     /\ PayloadEmpty => validation.v = MsgEmpty
     /\ PayloadBadAlerts => validation.v = MsgAlerts
     /\ PayloadNoName => validation.v = MsgName
     /\ MsgEmpty # MsgAlerts /\ MsgAlerts # MsgName /\ MsgEmpty # MsgName

C5_Witness ==
  /\ Validated
  /\ PayloadBadAlerts
  /\ Alerts.t = "list"
  /\ validation.t = "msg"

\* C6: when processing a direct payload's single alert raises, execute
\* returns FAILED with the exception text in the message and in data.error.
C6_DirectFailure ==
  (Done /\ ~IsBatch /\ 0 \in raised) =>
     /\ outcome.kind = "returned"
     /\ outcome.status = "failed"
     /\ outcome.message = <<"Failed to enrich alert: ", exc.text>>
     /\ outcome.data = [error |-> exc.text]
     /\ exc.text # ""

C6_Witness ==
  /\ Done
  /\ ~IsBatch
  /\ exc.type = "AttributeError"
  /\ outcome.kind = "returned"
  /\ outcome.status = "failed"

\* C7: when the reader's lookup returns a ProjectContext, enrich yields
\* enriched = true and the context's project_id, criticality, owner,
\* alert_channels and SLO fields, whatever the alert's own labels say.
C7_EnrichFound ==
  \A n \in 1..Len(enrich_log) :
    LET e == enrich_log[n] IN
    e.ctx.t = "ctx" =>
      /\ e.enriched.enriched = TRUE
      /\ e.enriched.project_id = e.ctx.v.project_id
      /\ e.enriched.criticality = e.ctx.v.criticality
      /\ e.enriched.business_owner = e.ctx.v.owner
      /\ e.enriched.alert_channels = e.ctx.v.alert_channels
      /\ e.enriched.availability_slo = e.ctx.v.availability_slo
      /\ e.enriched.latency_p99 = e.ctx.v.latency_p99

C7_Witness ==
  \E n \in 1..Len(enrich_log) :
    LET e == enrich_log[n] IN
    /\ e.ctx.t = "ctx"
    /\ "severity" \in DOMAIN e.alert.labels
    /\ e.alert.labels["severity"] # e.ctx.v.criticality
    /\ e.enriched.enriched

\* C8: when the reader's lookup returns absent, enrich yields enriched =
\* false, the severity label (or "medium") as criticality, the project_id
\* label (or else the project label, or else "") as project_id, and default
\* owner, channels and SLO fields.
C8_EnrichAbsent ==
  \A n \in 1..Len(enrich_log) :
    LET e == enrich_log[n]
        l == e.alert.labels
    IN e.ctx.t = "none" =>
      /\ e.enriched.enriched = FALSE
      /\ e.enriched.criticality =
           (IF "severity" \in DOMAIN l THEN l["severity"] ELSE s_medium)
      /\ e.enriched.project_id =
           (IF "project_id" \in DOMAIN l THEN l["project_id"]
            ELSE IF "project" \in DOMAIN l THEN l["project"] ELSE <<>>)
      /\ e.enriched.business_owner = ""
      /\ e.enriched.alert_channels = <<>>
      /\ e.enriched.availability_slo = ""
      /\ e.enriched.latency_p99 = ""

C8_Witness ==
  \E n \in 1..Len(enrich_log) :
    LET e == enrich_log[n] IN
    /\ e.ctx.t = "none"
    /\ "severity" \notin DOMAIN e.alert.labels
    /\ "project" \in DOMAIN e.alert.labels
    /\ e.enriched.criticality = s_medium

\* keys of the routing table equal to c when letter case is ignored
KeysIgnoringCase(c) == {k \in DOMAIN routing_table : Lower(k) = Lower(c)}

\* C9 as stated: route returns the table's list for the alert's criticality
\* when the table has it, and ["log"] for every criticality not in the table.
C9_Original ==
  \A call \in route_calls :
    LET c == call.enriched.criticality IN
    /\ c \in DOMAIN routing_table => call.actions = routing_table[c]
    /\ KeysIgnoringCase(c) = {} => call.actions = <<"log">>

\* C9: route returns the table's list stored under the lower-cased
\* criticality when the table has that key, and exactly ["log"] whenever the
\* lower-cased criticality is not a key of the table; the default table maps
\* critical, high, medium and low as documented.
C9_RouteLowered ==
  \A call \in route_calls :
    LET lc == Lower(call.enriched.criticality) IN
    /\ lc \in DOMAIN routing_table => call.actions = routing_table[lc]
    /\ lc \notin DOMAIN routing_table => call.actions = <<"log">>
    /\ routing_table = DefaultRoutingTable =>
         /\ lc = s_critical => call.actions = <<"claude_analysis", "context_notify">>
         /\ lc = s_high => call.actions = <<"context_notify">>
         /\ lc = s_medium => call.actions = <<"log">>
         /\ lc = s_low => call.actions = <<"log">>

C9_Witness ==
  \E call \in route_calls :
    /\ call.enriched.criticality \in DOMAIN routing_table
    /\ Lower(call.enriched.criticality) \notin DOMAIN routing_table
    /\ call.actions = <<"log">>

EmittedBy(c) == [k \in 1..(c.last - c.first) |-> spans[c.first + k]]

\* C11: dispatch emits exactly one fox.action.<name> span per action name
\* that route returns, in the order of the list; each span is started and
\* ended before the next one starts; dispatch returns the list that route
\* returns for the same input.
C11_DispatchSpans ==
  \A n \in 1..Len(calls) :
    calls[n].op = "dispatch" =>
      LET c == calls[n]
          emitted == EmittedBy(c)
      IN /\ c.returned = route(routing_table, c.enriched)
         /\ Len(emitted) = Len(c.returned)
         /\ \A k \in 1..Len(emitted) :
              /\ emitted[k].name = <<"fox.action.", c.returned[k]>>
              /\ emitted[k].ended
              /\ emitted[k].start_time < emitted[k].end_time
              /\ k > 1 => emitted[k - 1].end_time < emitted[k].start_time

\* a dispatch call that routed to two or more actions has returned
C11_Witness ==
  \E n \in 1..Len(calls) :
    /\ calls[n].op = "dispatch"
    /\ Len(calls[n].returned) >= 2
    /\ calls[n].last - calls[n].first = Len(calls[n].returned)

\* C12: routing is deterministic and pure: any two route or dispatch calls
\* with equal EnrichedAlert input return equal lists, in the same order,
\* and no step changes the routing table, also when a caller changes a list
\* that an earlier call returned.
C12_Pure ==
  /\ [](\A a, b \in 1..Len(calls) :
          calls[a].enriched = calls[b].enriched =>
            calls[a].returned = calls[b].returned)
  /\ [][routing_table' = routing_table]_vars

\* a call was made with the input of an earlier call after the caller of
\* the earlier call had changed the list it got
C12_Witness ==
  \E a, b \in 1..Len(calls) :
    /\ a < b
    /\ calls[a].enriched = calls[b].enriched
    /\ calls[a].list # calls[a].returned
    /\ calls[b].seen >= 1
    /\ calls[a].shares = {}
    /\ Lower(calls[a].enriched.criticality) \in DOMAIN routing_table


\* lookup call i answered from the cache / from an authority it asked
Hit(i) == lookups[i].ret.t = "ctx" /\ lookups[i].asked = <<>>
Resolved(i) == lookups[i].ret.t = "ctx" /\ lookups[i].asked # <<>>

\* call i resolved the key that call j looks up, and no call between
\* them resolved that key again
LastResolved(i, j) ==
  /\ i < j
  /\ lookups[i].key = lookups[j].key
  /\ Resolved(i)
  /\ \A m \in (i + 1)..(j - 1) :
       ~(lookups[m].key = lookups[i].key /\ Resolved(m))

\* C13 as stated: after lookup resolved a context for key k at time t, every
\* later lookup for k before t + ttl returns that context without asking an
\* authority, whatever other keys are looked up in between; a lookup for k
\* at or after t + ttl asks the authorities again.
C13_Original ==
  \A i, j \in 1..Len(lookups) :
    LastResolved(i, j) =>
      IF lookups[j].time < lookups[i].time + CacheTTL
      THEN Hit(j) /\ lookups[j].ret = lookups[i].ret
      ELSE ~Hit(j)

\* between calls i and j, no lookup of another key was made with a full
\* cache and left the cache without the key of call i
KeptBetween(i, j) ==
  \A m \in (i + 1)..(j - 1) :
    lookups[m].key # lookups[i].key =>
      \/ Len(lookups[m].before) < MAX_CACHE_SIZE
      \/ lookups[i].key \in CacheKeys(lookups[m].after)

\* C13: after lookup resolved a context for key k at time t, every later
\* lookup for k before t + ttl returns that context without asking an
\* authority, provided no lookup of another key in between found the cache
\* full and evicted k's entry; a lookup for k at or after t + ttl asks the
\* authorities again and does not return the expired entry.
C13_TTL ==
  \A i, j \in 1..Len(lookups) :
    LastResolved(i, j) =>
      IF lookups[j].time < lookups[i].time + CacheTTL
      THEN KeptBetween(i, j) => Hit(j) /\ lookups[j].ret = lookups[i].ret
      ELSE ~Hit(j) /\ lookups[j].asked # <<>>

\* a key was resolved, another key was resolved after it, and then the
\* first key was read from the cache at a later time within its lifetime
C13_Witness ==
  \E i, m, j \in 1..Len(lookups) :
    /\ i < m /\ m < j
    /\ LastResolved(i, j)
    /\ lookups[m].key # lookups[i].key /\ Resolved(m)
    /\ lookups[i].time < lookups[j].time
    /\ lookups[j].time < lookups[i].time + CacheTTL
    /\ Hit(j)


\* the entries of a cache other than the entry of key k
EntriesBut(c, k) == {c[n] : n \in {x \in 1..Len(c) : c[x].key # k}}

\* C14: when lookup resolves a context and the cache holds the maximum
\* number of entries (the looked-up key's own stale entry apart), every
\* expired entry is evicted first; only if the cache is still full after
\* that is exactly one more entry evicted, an entry with the smallest
\* expires_at.  Below the maximum nothing is evicted, and a cache hit
\* leaves every entry, and so every expires_at, as it was.
C14_Eviction ==
  \A m \in 1..Len(lookups) :
    /\ Hit(m) => lookups[m].after = lookups[m].before
    /\ Resolved(m) =>
         LET B == EntriesBut(lookups[m].before, lookups[m].key)
             A == EntriesBut(lookups[m].after, lookups[m].key)
             live == {e \in B : ~(lookups[m].time >= e.expires_at)}
         IN IF Cardinality(B) < MAX_CACHE_SIZE THEN A = B
            ELSE IF Cardinality(live) < MAX_CACHE_SIZE THEN A = live
            ELSE \E v \in live :
                   /\ \A e \in live : v.expires_at <= e.expires_at
                   /\ A = live \ {v}

\* a full cache without expired entries lost its earliest-stored entry
\* although that entry was read after every use of an entry that stayed
C14_Witness ==
  \E h, m \in 1..Len(lookups) :
    /\ h < m /\ Hit(h) /\ Resolved(m)
    /\ lookups[h].key # lookups[m].key
    /\ lookups[h].key \in CacheKeys(lookups[m].before)
    /\ lookups[h].key \notin CacheKeys(lookups[m].after)
    /\ lookups[m].time < CacheEntry(lookups[m].before, lookups[h].key).expires_at
    /\ \E e \in EntriesBut(lookups[m].after, lookups[m].key) :
         /\ e.expires_at > CacheEntry(lookups[m].before, lookups[h].key).expires_at
         /\ \A x \in h..(m - 1) : lookups[x].key # e.key


\* C15: after any sequence of lookup calls made one at a time on one
\* reader, the cache holds at most _MAX_CACHE_SIZE entries and at most one
\* entry per key.
C15_Bounded ==
  /\ Len(cache) <= MAX_CACHE_SIZE
  /\ \A a, b \in 1..Len(cache) : cache[a].key = cache[b].key => a = b

\* lookup resolved a new key with a full cache, and resolved again a key
\* whose entry had expired
C15_Witness ==
  /\ Len(cache) = MAX_CACHE_SIZE
  /\ \E m \in 1..Len(lookups) :
       /\ Resolved(m)
       /\ Len(lookups[m].before) = MAX_CACHE_SIZE
       /\ lookups[m].key \notin CacheKeys(lookups[m].before)
  /\ \E m \in 1..Len(lookups) :
       /\ Resolved(m)
       /\ lookups[m].key \in CacheKeys(lookups[m].before)


\* the custom resources of the namespace that Kubernetes offers for a
\* lookup: none when the lookup is disabled or fails, or no namespace is
\* given; filtered to project_id when one is supplied
KubernetesMatches(namespace, project_id) ==
  IF env.use_kubernetes /\ env.k8s = "ok" /\ Truthy(namespace)
     /\ namespace.v \in DOMAIN env.k8s_items
  THEN {c \in {env.k8s_items[namespace.v][n] :
                 n \in 1..Len(env.k8s_items[namespace.v])} :
          Truthy(project_id) => c.project_id = project_id.v}
  ELSE {}

\* the YAML file holds a context for the lookup
YamlMatches(project_id) ==
  /\ env.yaml_path
  /\ env.yaml.state = "doc"
  /\ Truthy(project_id) => env.yaml.doc.project_id = project_id.v

\* C16: on a cache miss lookup returns a Kubernetes match when Kubernetes
\* lookup is enabled and the namespace's custom resources contain a match
\* (filtered to project_id when one is supplied) and then does not consult
\* the YAML file; otherwise the YAML file's context when a YAML path is
\* configured and the file matches project_id if supplied; otherwise None.
C16_Resolution ==
  \A m \in 1..Len(lookups) :
    ~Hit(m) =>
      LET l == lookups[m]
          k8s == KubernetesMatches(l.namespace, l.project_id)
      IN IF k8s # {}
         THEN /\ l.ret.t = "ctx" /\ l.ret.v \in k8s
              /\ l.asked = <<"kubernetes">>
         ELSE IF YamlMatches(l.project_id)
         THEN /\ l.ret = PyCtx([env.yaml.doc EXCEPT !.alert_channels = <<>>])
              /\ l.asked[Len(l.asked)] = "yaml"
         ELSE l.ret = PyNone

\* a miss was answered by the second custom resource of the namespace,
\* the first one being of another project, with a YAML file in place
C16_Witness ==
  \E m \in 1..Len(lookups) :
    /\ ~Hit(m)
    /\ Truthy(lookups[m].project_id) /\ Truthy(lookups[m].namespace)
    /\ lookups[m].ret.t = "ctx"
    /\ lookups[m].asked = <<"kubernetes">>
    /\ env.k8s_items[lookups[m].namespace.v][1].project_id # lookups[m].project_id.v
    /\ YamlMatches(lookups[m].project_id)


\* C17: lookup never raises to its caller: it returns a context or None.
\* When the Kubernetes client library is missing, the credentials cannot be
\* loaded or the cluster call fails, Kubernetes counts as yielding no match
\* and the lookup falls through to the YAML file; a YAML file that is
\* missing, empty or malformed counts as yielding no match.
C17_LookupNeverRaises ==
  \A m \in 1..Len(lookups) :
    LET l == lookups[m] IN
      /\ l.ret.t \in {"ctx", "none"}
      /\ (~Hit(m) /\ env.use_kubernetes /\ env.k8s # "ok") =>
           /\ env.yaml_path => l.asked = <<"kubernetes", "yaml">>
           /\ l.ret = IF YamlMatches(l.project_id)
                      THEN PyCtx([env.yaml.doc EXCEPT !.alert_channels = <<>>])
                      ELSE PyNone
      /\ (~Hit(m) /\ env.yaml.state # "doc"
            /\ KubernetesMatches(l.namespace, l.project_id) = {}) =>
           l.ret = PyNone

\* the cluster call of a lookup failed and the lookup returned the YAML
\* file's context
C17_Witness ==
  \E m \in 1..Len(lookups) :
    /\ env.use_kubernetes /\ env.k8s = "api_error"
    /\ Truthy(lookups[m].namespace)
    /\ lookups[m].asked = <<"kubernetes", "yaml">>
    /\ lookups[m].ret.t = "ctx"


\* C18: with two or more invocations running lookup concurrently on one
\* reader, interleaved at the single cache read, pop, evict and store
\* steps, the cache never holds more than the maximum number of entries.
C18_ConcurrentBounded == Cardinality(CacheKeys(cache)) <= MAX_CACHE_SIZE

\* C19: with two or more invocations running lookup concurrently on one
\* reader, no lookup fails with an error because another invocation removed
\* or added a cache entry between its steps: every lookup returns a context
\* or None.
C19_ConcurrentNoError ==
  \A m \in 1..Len(lookups) : lookups[m].ret.t \in {"ctx", "none"}


\* C20: enrich returns the EnrichedAlert together with its fox.context.enrich
\* span, and that span has not ended when enrich returns; in the pipeline
\* it ends only after every fox.action.* span of the alert has been started
\* and ended.
C20_EnrichSpanOpen ==
  /\ (pc = "unpack" /\ Accepted) =>
       /\ ret.t = "tuple"
       /\ spans[ret.v[2]].name = <<"fox.context.enrich">>
       /\ ~spans[ret.v[2]].ended
  /\ (pc = "handle" /\ Accepted /\ ret.t # "none") =>
       \A e, a \in SpansOf(idx) :
         (spans[e].name = <<"fox.context.enrich">> /\ spans[a].name[1] = "fox.action.")
           => /\ spans[a].ended /\ spans[e].ended
              /\ spans[a].end_time < spans[e].end_time


\* C21: every call of enrich starts exactly one span, named
\* fox.context.enrich, whether or not a ProjectContext was found (also for
\* an alert without labels), and the span's project.id, alert.criticality
\* and business.owner attributes equal the fields of the EnrichedAlert
\* that enrich returns.
C21_EnrichSpan ==
  /\ Cardinality({k \in 1..Len(spans) : spans[k].name = <<"fox.context.enrich">>})
       = Len(enrich_log)
  /\ \A n \in 1..Len(enrich_log) :
       LET e == enrich_log[n]
           s == spans[e.last]
       IN /\ e.last = e.first + 1
          /\ s.name = <<"fox.context.enrich">>
          /\ s.attrs.project_id = e.enriched.project_id
          /\ s.attrs.alert_criticality = e.enriched.criticality
          /\ s.attrs.business_owner = e.enriched.business_owner
  /\ (pc = "unpack") => /\ Len(enrich_log) > 0
                        /\ ret.v = enrich_log[Len(enrich_log)].enriched

\* enrich was called for an alert without labels for which no context was
\* found, and for an alert whose context was found
C21_Witness ==
  /\ \E n \in 1..Len(enrich_log) :
       /\ enrich_log[n].ctx.t = "none"
       /\ enrich_log[n].alert.labels = EmptyLabels
       /\ spans[enrich_log[n].last].name = <<"fox.context.enrich">>
  /\ \E n \in 1..Len(enrich_log) :
       /\ enrich_log[n].ctx.t = "ctx"
       /\ enrich_log[n].enriched.business_owner # ""


\* the received span and the enrich and action spans of one alert
ReceivedOf(i) == {k \in SpansOf(i) : spans[k].name = <<"fox.alert.received">>}
ChildrenOf(i) == {k \in SpansOf(i) : spans[k].name # <<"fox.alert.received">>}

\* C22 as stated: the fox.alert.received span of an alert is ended right
\* after it is started, before enrichment starts: it has ended before the
\* alert's fox.context.enrich span or any of its fox.action.* spans starts.
C22_Original ==
  \A k \in 1..Len(spans) : \A x \in 1..Len(spans) :
    (spans[k].name = <<"fox.alert.received">> /\ spans[x].alert = spans[k].alert
       /\ spans[x].name # <<"fox.alert.received">>)
      => spans[k].ended /\ spans[k].end_time < spans[x].start_time

\* C22: the fox.alert.received span of an alert is the current span while
\* the alert is enriched and stays open around its fox.context.enrich span:
\* the enrich span starts as its child and ends before it; the received
\* span is ended when _process_alert is left, by return or by exception.
C22_ReceivedWraps ==
  /\ \A k \in 1..Len(spans) : \A x \in 1..Len(spans) :
       (spans[k].name = <<"fox.alert.received">> /\ spans[x].alert = spans[k].alert
          /\ spans[x].name = <<"fox.context.enrich">>)
         => /\ spans[x].parent = k
            /\ spans[k].start_time < spans[x].start_time
            /\ spans[k].ended => spans[x].end_time < spans[k].end_time
  /\ \A k \in 1..Len(spans) :
       spans[k].name = <<"fox.alert.received">> =>
         /\ spans[k].ended <=> k \notin {active[n] : n \in 1..Len(active)}
         /\ pc \in {"enrich", "unpack"} => ReceivedOf(idx) = {active[Len(active)]}
         /\ pc \notin {"enrich", "unpack"} => active = <<>>

\* an alert has been processed: its received span ended after its enrich span
C22_Witness ==
  /\ pc = "handle" /\ Accepted
  /\ \E k \in ReceivedOf(idx) : \E x \in ChildrenOf(idx) :
       /\ spans[k].ended /\ spans[x].ended
       /\ spans[x].end_time < spans[k].end_time


\* C23: a batch is processed one alert after the other in input order: the
\* results list grows by one entry per alert, entry i being the result of
\* alerts[i]; every span of an alert has been started and ended before a
\* span of a later alert is started; execute returns only when every alert
\* has been processed.
C23_Sequential ==
  (IsBatchList /\ Accepted /\ pc # "execute") =>
    /\ Len(results) = IF pc \in {"return", "done"} /\ outcome.kind # "raised"
                       THEN idx ELSE idx - 1
    /\ \A i \in 1..Len(results) :
         results[i].alert_name = PyStr(HandlerName(Alerts.v[i]))
    /\ \A k, x \in 1..Len(spans) :
         spans[k].alert < spans[x].alert =>
           spans[k].ended /\ spans[k].end_time < spans[x].start_time
    /\ outcome.kind = "returned" =>
         /\ outcome.data.results = results
         /\ Len(results) = Len(Alerts.v)

\* execute returned for a batch of two alerts with different names, each of
\* which started spans
C23_Witness ==
  /\ IsBatchList /\ Accepted /\ outcome.kind = "returned"
  /\ Len(results) = 2
  /\ results[1].alert_name # results[2].alert_name
  /\ SpansOf(1) # {} /\ SpansOf(2) # {}


\* the enrich calls, each of which calls lookup once, made for alert i
LookupsOf(i) == {n \in 1..Len(enrich_log) : enrich_log[n].idx = i}

\* the alerts whose processing has ended
Processed ==
  IF IsBatchList
  THEN {i \in 1..Len(Alerts.v) : i < idx \/ (i = idx /\ pc \in {"handle", "return", "done"})}
  ELSE {i \in {0} : pc \in {"handle", "done"}}

\* the record of alert i
RecordOf(i) == IF i = 0 THEN PyDict(payload) ELSE Alerts.v[i]

\* C24 as stated: processing one alert calls lookup exactly once, and a
\* batch of N alerts makes exactly N lookup calls.
C24_Original ==
  (Accepted /\ (IsBatch => IsBatchList)
     /\ \A i \in Processed : RecordOf(i).t = "dict") =>
    /\ \A i \in Processed : Cardinality(LookupsOf(i)) = 1
    /\ (IsBatchList /\ outcome.kind = "returned") => Len(enrich_log) = Len(Alerts.v)

\* C24: the orchestrator performs no retries: processing one alert calls
\* lookup at most once, exactly once when the alert record can be built
\* (a record or labels value that is not a dict makes processing raise
\* before enrichment), and starts at most one received and one enrich span;
\* a batch of N alerts makes at most N lookup calls, exactly N when every
\* record can be built.
C24_NoRetries ==
  (Accepted /\ (IsBatch => IsBatchList)) =>
    /\ \A i \in Processed :
         /\ Cardinality(LookupsOf(i)) = IF BuildExc(RecordOf(i)).type = "none" THEN 1 ELSE 0
         /\ Cardinality(ReceivedOf(i)) = Cardinality(LookupsOf(i))
         /\ Cardinality(ChildrenOf(i)) = Cardinality(LookupsOf(i))
    /\ \A n \in 1..Len(enrich_log) :
         enrich_log[n].idx \in Processed \/ (enrich_log[n].idx = idx /\ pc = "unpack")
    /\ (IsBatchList /\ outcome.kind = "returned") =>
         /\ Len(enrich_log) <= Len(Alerts.v)
         /\ WellFormed => Len(enrich_log) = Len(Alerts.v)

\* a batch of two alerts was processed with one lookup each, one finding a
\* context and one not
C24_Witness ==
  /\ IsBatchList /\ Accepted /\ outcome.kind = "returned"
  /\ Len(Alerts.v) = 2 /\ Len(enrich_log) = 2
  /\ enrich_log[1].ctx.t # enrich_log[2].ctx.t


\* C25: after any sequence of lookups on one reader, a lookup called with
\* a non-empty project_id p returns None or a ProjectContext whose
\* project_id is p, also when the answer comes from the cache and an
\* earlier lookup that gave only a namespace stored its result under the
\* same key string p.
C25_ProjectIdMatches ==
  \A m \in 1..Len(lookups) :
    Truthy(lookups[m].project_id) =>
      \/ lookups[m].ret = PyNone
      \/ /\ lookups[m].ret.t = "ctx"
         /\ lookups[m].ret.v.project_id = lookups[m].project_id.v


\* C26: a lookup that resolves to None stores nothing: afterwards the cache
\* has no entry for the lookup's key (an expired entry of the key is
\* removed), the entries of all other keys are as before, in the same order
\* (nothing is evicted), and the next lookup for the same key asks the
\* authorities again.
C26_AbsentNotCached ==
  \A m \in 1..Len(lookups) :
    lookups[m].ret = PyNone =>
      /\ lookups[m].key \notin CacheKeys(lookups[m].after)
      /\ lookups[m].after =
           SelectSeq(lookups[m].before, LAMBDA e : e.key # lookups[m].key)
      /\ \A j \in (m + 1)..Len(lookups) :
           (lookups[j].key = lookups[m].key
              /\ \A x \in (m + 1)..(j - 1) : lookups[x].key # lookups[m].key)
             => ~Hit(j)

\* a lookup resolved to None while the cache held an expired entry of its
\* key and an entry of another key, and the key was looked up again
C26_Witness ==
  \E m, j \in 1..Len(lookups) :
    /\ m < j
    /\ lookups[m].ret = PyNone
    /\ lookups[m].key \in CacheKeys(lookups[m].before)
    /\ Len(lookups[m].after) >= 1
    /\ lookups[j].key = lookups[m].key


\* C27: when execute has returned (or an exception has left it), every span
\* started during the call has been ended, after it was started, and the
\* current-span stack is the caller's again (empty); between two alerts of a
\* batch the same holds, also when the alert before raised
C27_SpansClosed ==
  pc \in {"handle", "process", "return", "done"} =>
    /\ active = <<>>
    /\ \A k \in 1..Len(spans) :
         spans[k].ended /\ spans[k].start_time < spans[k].end_time

\* execute is over, an alert raised inside the received span after its
\* enrich span, and another alert started spans after it
C27_Witness ==
  /\ Done
  /\ \E i \in raised : \E j \in 1..MaxAlerts :
       /\ i < j
       /\ Cardinality(SpansOf(i)) >= 2
       /\ SpansOf(j) # {}


\* the positions in a run_step record's events where the step body ran
Bodies(rec) == {k \in 1..Len(rec.events) : rec.events[k].e = "body"}

\* the body run at position k of the events succeeded
Succeeded(rec, k) == rec.events[k].outcome \in {"true", "exit_zero", "return"}

\* the run_step call of the record went past dependency check, skip and dry-run
ReachedLoop(rec) ==
  /\ IsRegistered(steps, rec.step_id)
  /\ \A k \in 1..Len(StepsGet(steps, rec.step_id).dependencies) :
       rec.before[StepsGet(steps, rec.step_id).dependencies[k]].status = "completed"
  /\ ~(StepsGet(steps, rec.step_id).idempotent
         /\ rec.before[rec.step_id].status = "completed")
  /\ ~dry_run

\* C28: a run_step call that reaches the retry loop ends after at most
\* max_retries attempts: while it runs the attempt number never passes
\* max_retries + 1; every run of the body comes right after a mark_running;
\* a successful run of the body is the last one, is followed by
\* mark_completed, and SUCCESS is returned with the step recorded completed;
\* when no run succeeded the body ran max_retries times, mark_failed was
\* called last with the error of the last attempt, and STEP_FAILURE is
\* returned with the step recorded failed
C28_RetryLoop ==
  /\ frame.pc = "loop" =>
       frame.attempt <= StepsGet(steps, frame.step_id).max_retries + 1
  /\ \A m \in 1..Len(step_log) :
       LET rec == step_log[m]
           ev == rec.events
           step == StepsGet(steps, rec.step_id)
           last == CHOOSE k \in Bodies(rec) : \A j \in Bodies(rec) : j <= k
       IN ReachedLoop(rec) =>
            /\ Cardinality(Bodies(rec)) <= step.max_retries
            /\ \A k \in Bodies(rec) :
                 /\ k > 1
                 /\ ev[k - 1].e = "mark_running"
                 /\ ev[k - 1].attempt = ev[k].attempt
            /\ IF \E k \in Bodies(rec) : Succeeded(rec, k)
               THEN /\ \A k \in Bodies(rec) : Succeeded(rec, k) <=> k = last
                    /\ ev[Len(ev)].e = "mark_completed"
                    /\ \A k \in 1..Len(ev) : ev[k].e # "mark_failed"
                    /\ rec.result = SUCCESS
                    /\ rec.after[rec.step_id].status = "completed"
               ELSE /\ Cardinality(Bodies(rec)) = step.max_retries
                    /\ ev # <<>>
                    /\ ev[Len(ev)].e = "mark_failed"
                    /\ \A k \in 1..(Len(ev) - 1) :
                         ev[k].e \notin {"mark_failed", "mark_completed"}
                    /\ ev[Len(ev)].error =
                         (IF Bodies(rec) = {} THEN NoError
                          ELSE LastError(step, ev[last].attempt,
                                         execute_step(step, ev[last].outcome)))
                    /\ rec.result = STEP_FAILURE
                    /\ rec.after[rec.step_id] =
                         [status |-> "failed", error |-> ev[Len(ev)].error]

\* a run_step call whose every attempt failed, in different ways, the last
\* one by a timeout
C28_Witness ==
  \E m \in 1..Len(step_log) :
    /\ ReachedLoop(step_log[m])
    /\ step_log[m].result = STEP_FAILURE
    /\ Cardinality(Bodies(step_log[m])) = MaxRetries
    /\ \E j, k \in Bodies(step_log[m]) :
         /\ j < k
         /\ step_log[m].events[j].outcome = "false"
         /\ step_log[m].events[k].outcome = "timeout"
    /\ step_log[m].after[step_log[m].step_id].error.n = DefaultTimeout

\* some dependency of the record's step was not recorded completed when
\* run_step was called
DependencyMissing(rec) ==
  /\ IsRegistered(steps, rec.step_id)
  /\ \E k \in 1..Len(StepsGet(steps, rec.step_id).dependencies) :
       rec.before[StepsGet(steps, rec.step_id).dependencies[k]].status # "completed"

\* the record's step is idempotent and was recorded completed when run_step
\* was called
AlreadyDone(rec) ==
  /\ IsRegistered(steps, rec.step_id)
  /\ StepsGet(steps, rec.step_id).idempotent
  /\ rec.before[rec.step_id].status = "completed"

\* the call of the record ran nothing and changed nothing
Untouched(rec) == rec.events = <<>> /\ rec.after = rec.before

\* C29 as stated: DEPENDENCY_FAILURE whenever a dependency is not completed,
\* and SUCCESS whenever the step is idempotent and already completed, each
\* time without running the body or changing a status
C29_Original ==
  \A m \in 1..Len(step_log) :
    IsRegistered(steps, step_log[m].step_id) =>
      /\ DependencyMissing(step_log[m]) =>
           step_log[m].result = DEPENDENCY_FAILURE /\ Untouched(step_log[m])
      /\ AlreadyDone(step_log[m]) =>
           step_log[m].result = SUCCESS /\ Untouched(step_log[m])

\* C29: run_step of a registered step returns DEPENDENCY_FAILURE whenever a
\* dependency is not recorded completed, also for an idempotent step that
\* is itself completed; an idempotent completed step whose dependencies are
\* all completed is skipped with SUCCESS; in both cases the body is not run
\* and no recorded status changes
C29_Gating ==
  \A m \in 1..Len(step_log) :
    IsRegistered(steps, step_log[m].step_id) =>
      /\ DependencyMissing(step_log[m]) =>
           step_log[m].result = DEPENDENCY_FAILURE /\ Untouched(step_log[m])
      /\ (AlreadyDone(step_log[m]) /\ ~DependencyMissing(step_log[m])) =>
           step_log[m].result = SUCCESS /\ Untouched(step_log[m])

\* run_step was called for an idempotent step recorded completed whose
\* dependency had failed since, and returned DEPENDENCY_FAILURE
C29_Witness ==
  /\ ~dry_run
  /\ \E m \in 1..Len(step_log) :
       /\ AlreadyDone(step_log[m])
       /\ DependencyMissing(step_log[m])
       /\ step_log[m].result = DEPENDENCY_FAILURE
       /\ \E k \in 1..Len(StepsGet(steps, step_log[m].step_id).dependencies) :
            step_log[m].before[StepsGet(steps, step_log[m].step_id).dependencies[k]].status
              = "failed"

\* C30: a run_all call runs the steps of step_ids (the registered steps
\* when step_ids is None) in order up to the first one whose run_step does
\* not return SUCCESS, returns that code, and returns SUCCESS exactly when
\* every step asked for returned SUCCESS
C30_RunAll ==
  \A m \in 1..Len(all_log) :
    LET rec == all_log[m]
        asked == IF rec.arg.t = "none" THEN StepKeys(steps) ELSE rec.arg.v
        n == Len(rec.ran)
    IN /\ n <= Len(asked)
       /\ \A k \in 1..n : rec.ran[k].step_id = asked[k]
       /\ \A k \in 1..(n - 1) : rec.ran[k].result = SUCCESS
       /\ rec.result = SUCCESS <=>
            (n = Len(asked) /\ \A k \in 1..n : rec.ran[k].result = SUCCESS)
       /\ rec.result # SUCCESS => rec.ran[n].result = rec.result

====
